---- MODULE Spec2Model ----
(***************************************************************************)
(* GraphLab backend: the service layer over the relational store and the  *)
(* process-wide token blacklist.                                          *)
(*                                                                         *)
(* The relational store is the record db, one field per table, each table *)
(* a set of rows (records).  A service method is an operator from the     *)
(* store it reads and its arguments to an outcome                         *)
(*     [result, commits, value]                                            *)
(* where result is "ok" or the name of the exception that leaves the      *)
(* method, commits is the sequence of store states the method committed   *)
(* (db.commit() calls, in order) and value is what it returns.  A request *)
(* is one step: the store becomes the last committed state (work that was *)
(* not committed is dropped when get_db closes the session).              *)
(*                                                                         *)
(* Identifiers (uuid4 in the code) are positive integers handed out by    *)
(* next_id and never reused; 0 stands for None.  The attributes a service *)
(* method reads from its request object or writes to a row are taken to   *)
(* exist as the method uses them.                                         *)
(***************************************************************************)
EXTENDS Integers, Sequences, FiniteSets, TLC

VARIABLES
    db,                 \* the relational store: one field per table
    next_id,            \* the next identifier of each table (uuid4 stand-in)
    last,               \* the last request: operation, arguments, outcome, store before it
    blacklisted_tokens, \* app.core.auth.blacklisted_tokens (process-wide set)
    now,                \* the wall clock, in ticks
    issued,             \* tokens handed to clients so far
    exchanged           \* refresh tokens a successful refresh was given so far

vars == <<db, next_id, last, blacklisted_tokens, now, issued, exchanged>>

\* The state of the token layer.
auth_vars == <<blacklisted_tokens, now, issued, exchanged>>

(***************************************************************************)
(* Bounds of the model.                                                    *)
(***************************************************************************)
MaxSchemas == 3
MaxConnections == 2
MaxVersion == 2
MaxJobs == 1

\* None, for a nullable identifier column (ids are positive).
NoId == 0

Labs == {"L1", "L2"}
\* uo owns both labs; ua is an admin member and uv a viewer member of L1, and neither
\* is a member of L2.
Users == {"uo", "ua", "uv"}

(***************************************************************************)
(* RBAC permission matrix (utils/permissions.py).                          *)
(***************************************************************************)
Capabilities ==
    {"manage_lab", "delete_lab", "transfer_ownership", "manage_members",
     "manage_settings", "manage_schemas", "manage_connections", "run_jobs",
     "delete_data", "create_brainstorm", "view_data", "participate_conversations"}

ROLE_PERMISSIONS ==
    [owner  |-> [p \in Capabilities |-> TRUE],
     admin  |-> [p \in Capabilities |->
                    p \notin {"manage_lab", "delete_lab", "transfer_ownership"}],
     viewer |-> [p \in Capabilities |->
                    p \in {"view_data", "participate_conversations"}]]

can_perform(role, permission) ==
    IF role \notin DOMAIN ROLE_PERMISSIONS THEN FALSE
    ELSE IF permission \in DOMAIN ROLE_PERMISSIONS[role]
         THEN ROLE_PERMISSIONS[role][permission]
         ELSE FALSE

can_manage_schemas(role) == can_perform(role, "manage_schemas")

can_run_jobs(role) == can_perform(role, "run_jobs")

is_admin_role(role) == role \in {"owner", "admin"}

(***************************************************************************)
(* Outcomes of a service method.                                           *)
(***************************************************************************)
Raise(err) == [result |-> err, commits |-> <<>>, value |-> NoId]

Return(commits, v) == [result |-> "ok", commits |-> commits, value |-> v]

\* An exception that leaves the method after it has committed.
RaiseAfter(err, commits) == [result |-> err, commits |-> commits, value |-> NoId]

(***************************************************************************)
(* Row lookups shared by the services.                                     *)
(***************************************************************************)
SchemasOfLab(d, lab_id) == {s \in d.kg_schemas : s.lab_id = lab_id}

ConnectionsOfLab(d, lab_id) == {c \in d.neo4j_connections : c.lab_id = lab_id}

SchemaById(d, schema_id) == {s \in d.kg_schemas : s.id = schema_id}

ConnectionById(d, connection_id) == {c \in d.neo4j_connections : c.id = connection_id}

ActiveSchemas(d, lab_id) == {s \in SchemasOfLab(d, lab_id) : s.is_active}

ActiveConnections(d, lab_id) == {c \in ConnectionsOfLab(d, lab_id) : c.is_active}

SetMax(S) == IF S = {} THEN 0 ELSE CHOOSE m \in S : \A x \in S : x <= m

\* KgSchemaService._get_user_role_in_lab / Neo4jConnectionService._get_user_role_in_lab:
\* "owner" for the lab's owner, the role of a current membership, else "" (AuthorizationError).
get_user_role_in_lab(d, user_id, lab_id) ==
    IF d.labs[lab_id].owner_id = user_id THEN "owner"
    ELSE LET ms == {m \in d.lab_members :
                       m.lab_id = lab_id /\ m.user_id = user_id /\ ~m.left_at}
         IN IF ms # {} THEN (CHOOSE m \in ms : TRUE).role ELSE ""

user_can_manage_schemas(d, user_id, lab_id) ==
    can_manage_schemas(get_user_role_in_lab(d, user_id, lab_id))

\* _get_lab_or_raise finds the lab unless it is soft-deleted.
LabIsLive(d, lab_id) == ~d.labs[lab_id].deleted_at

\* _validate_schema_definition: a definition is the set of its top-level sections;
\* it is valid when both required sections are there.
validate_schema_definition(schema_def) ==
    {"nodes", "relationships"} \subseteq schema_def

SchemaDefinitions == {{}, {"nodes"}, {"nodes", "relationships"}}

(***************************************************************************)
(* KgSchemaService (services/kg_schema.py).  A schema row is               *)
(* [id, lab_id, version, is_active]; description and schema_definition    *)
(* are stored verbatim and decide nothing, so they are left out of the row.*)
(***************************************************************************)
\* func.max(KgSchema.version) over the lab's schemas, "or 0", plus one.
\* A version numbering that counts the lab's schemas instead of taking their maximum.
version_by_count(d, lab_id) == Cardinality(SchemasOfLab(d, lab_id)) + 1

next_version(d, lab_id) ==
    SetMax({s.version : s \in SchemasOfLab(d, lab_id)}) + 1

\* query(KgSchema).filter(lab_id == lab_id, is_active == True).update({"is_active": False})
\* An activation that leaves the lab's other schemas as they are.
keep_schemas_active(d, lab_id) == d

deactivate_schemas(d, lab_id) ==
    [d EXCEPT !.kg_schemas =
        {IF s.lab_id = lab_id /\ s.is_active THEN [s EXCEPT !.is_active = FALSE] ELSE s
           : s \in @}]

version_exists(d, lab_id, version) ==
    \E s \in SchemasOfLab(d, lab_id) : s.version = version

\* Jobs that block activate_schema: schema_migrate jobs of the lab, queued or running.
running_migration_jobs(d, lab_id) ==
    {j \in d.processing_jobs :
        j.lab_id = lab_id /\ j.job_type = "schema_migrate" /\ j.status \in {"queued", "running"}}

create_schema(d, new_id, user_id, lab_id, request) ==
    IF ~user_can_manage_schemas(d, user_id, lab_id) THEN Raise("AuthorizationError")
    ELSE IF ~LabIsLive(d, lab_id) THEN Raise("NotFoundError")
    ELSE IF request.version # NoId /\ version_exists(d, lab_id, request.version)
         THEN Raise("ConflictError")
    ELSE IF request.schema_definition # {}
            /\ ~validate_schema_definition(request.schema_definition)
         THEN Raise("ValidationError")
    ELSE LET version == IF request.version = NoId THEN next_version(d, lab_id)
                        ELSE request.version
             d1 == IF request.is_active THEN deactivate_schemas(d, lab_id) ELSE d
             d2 == [d1 EXCEPT !.kg_schemas = @ \cup
                       {[id |-> new_id, lab_id |-> lab_id, version |-> version,
                         is_active |-> request.is_active]}]
             d3 == [d2 EXCEPT !.labs[lab_id].active_schema_id = new_id]
         IN  IF request.is_active THEN Return(<<d2, d3>>, new_id)
             ELSE Return(<<d2>>, new_id)

\* An activation that commits after the deactivation and again after the activation.
activate_schema_commit_each_step(d, user_id, lab_id, schema_id) ==
    IF ~is_admin_role(get_user_role_in_lab(d, user_id, lab_id))
    THEN Raise("AuthorizationError")
    ELSE IF \A s \in SchemaById(d, schema_id) : s.lab_id # lab_id THEN Raise("NotFoundError")
    ELSE IF ~LabIsLive(d, lab_id) THEN Raise("NotFoundError")
    ELSE IF running_migration_jobs(d, lab_id) # {} THEN Raise("ConflictError")
    ELSE LET d1 == deactivate_schemas(d, lab_id)
             d2 == [d1 EXCEPT !.kg_schemas =
                       {IF s.id = schema_id THEN [s EXCEPT !.is_active = TRUE] ELSE s : s \in @}]
             d3 == [d2 EXCEPT !.labs[lab_id].active_schema_id = schema_id]
         IN  Return(<<d1, d3>>, schema_id)

activate_schema(d, user_id, lab_id, schema_id) ==
    IF ~is_admin_role(get_user_role_in_lab(d, user_id, lab_id))
    THEN Raise("AuthorizationError")
    ELSE IF \A s \in SchemaById(d, schema_id) : s.lab_id # lab_id THEN Raise("NotFoundError")
    ELSE IF ~LabIsLive(d, lab_id) THEN Raise("NotFoundError")
    ELSE IF running_migration_jobs(d, lab_id) # {} THEN Raise("ConflictError")
    ELSE LET d1 == deactivate_schemas(d, lab_id)
             d2 == [d1 EXCEPT !.kg_schemas =
                       {IF s.id = schema_id THEN [s EXCEPT !.is_active = TRUE] ELSE s : s \in @}]
             d3 == [d2 EXCEPT !.labs[lab_id].active_schema_id = schema_id]
         IN  Return(<<d3>>, schema_id)

\* db.delete(schema): the ORM also deletes the connections that reference the schema
\* (KgSchema.neo4j_connections, cascade="all, delete-orphan").
delete_schema_rows(d, schema_id) ==
    [d EXCEPT !.kg_schemas = {s \in @ : s.id # schema_id},
              !.neo4j_connections = {c \in @ : c.schema_id # schema_id}]

\* The foreign keys labs.active_schema_id -> kg_schemas.id and
\* labs.active_connection_id -> neo4j_connections.id (models/lab.py), checked at commit.
lab_pointers_valid(d) ==
    \A l \in Labs :
        /\ d.labs[l].active_schema_id # NoId =>
              \E s \in d.kg_schemas : s.id = d.labs[l].active_schema_id
        /\ d.labs[l].active_connection_id # NoId =>
              \E c \in d.neo4j_connections : c.id = d.labs[l].active_connection_id

\* A commit on a store without the two foreign keys.
commit_without_foreign_keys(d1, v) == Return(<<d1>>, v)

Commit(d1, v) == IF lab_pointers_valid(d1) THEN Return(<<d1>>, v) ELSE Raise("IntegrityError")

delete_schema(d, user_id, schema_id, force) ==
    IF SchemaById(d, schema_id) = {} THEN Raise("NotFoundError")
    ELSE LET schema == CHOOSE s \in SchemaById(d, schema_id) : TRUE
             referenced == \E c \in d.neo4j_connections : c.schema_id = schema_id
             d1 == IF force /\ schema.is_active
                      /\ d.labs[schema.lab_id].active_schema_id = schema_id
                   THEN [d EXCEPT !.labs[schema.lab_id].active_schema_id = NoId]
                   ELSE d
         IN  IF ~is_admin_role(get_user_role_in_lab(d, user_id, schema.lab_id))
             THEN Raise("AuthorizationError")
             ELSE IF ~force /\ schema.is_active THEN Raise("ConflictError")
             ELSE IF ~force /\ referenced THEN Raise("ConflictError")
             ELSE Commit(delete_schema_rows(d1, schema_id), NoId)

clone_schema(d, new_id, user_id, schema_id) ==
    IF SchemaById(d, schema_id) = {} THEN Raise("NotFoundError")
    ELSE LET schema == CHOOSE s \in SchemaById(d, schema_id) : TRUE
         IN  IF ~user_can_manage_schemas(d, user_id, schema.lab_id)
             THEN Raise("AuthorizationError")
             ELSE Return(<<[d EXCEPT !.kg_schemas = @ \cup
                              {[id |-> new_id, lab_id |-> schema.lab_id,
                                version |-> next_version(d, schema.lab_id),
                                is_active |-> FALSE]}]>>, new_id)

import_schema(d, new_id, user_id, lab_id, request) ==
    IF ~user_can_manage_schemas(d, user_id, lab_id) THEN Raise("AuthorizationError")
    ELSE IF ~validate_schema_definition(request.schema_data) THEN Raise("ValidationError")
    ELSE IF request.version # NoId /\ version_exists(d, lab_id, request.version)
         THEN Raise("ConflictError")
    ELSE LET version == IF request.version # NoId THEN request.version
                        ELSE next_version(d, lab_id)
         IN  Return(<<[d EXCEPT !.kg_schemas = @ \cup
                          {[id |-> new_id, lab_id |-> lab_id, version |-> version,
                            is_active |-> FALSE]}]>>, new_id)

migrate_schema(d, new_id, user_id, schema_id) ==
    IF SchemaById(d, schema_id) = {} THEN Raise("NotFoundError")
    ELSE LET schema == CHOOSE s \in SchemaById(d, schema_id) : TRUE
             role == get_user_role_in_lab(d, user_id, schema.lab_id)
         IN  IF ~(is_admin_role(role) \/ can_run_jobs(role)) THEN Raise("AuthorizationError")
             ELSE Return(<<[d EXCEPT !.processing_jobs = @ \cup
                              {[id |-> new_id, lab_id |-> schema.lab_id,
                                job_type |-> "schema_migrate", status |-> "queued"]}]>>,
                         new_id)

(***************************************************************************)
(* Neo4jConnectionService (services/neo4j_connection.py).  A connection   *)
(* row is [id, lab_id, connection_name, secret_id, schema_id, is_active]; *)
(* "" is None for the optional strings of a request.  uri, database_name  *)
(* and username are guarded and assigned exactly as secret_id is, which   *)
(* stands for the four of them.                                            *)
(***************************************************************************)
\* What the target graph database answers to build_client(...).verify().
ProbeOutcomes ==
    {"ok", "AuthError", "ServiceUnavailable", "Neo4jError", "SecretNotFound"}

\* A pre-flight check that lets a driver error through.
verify_ignoring_driver_errors(probe) ==
    IF probe \in {"AuthError", "ServiceUnavailable"} THEN "ValidationError"
    ELSE IF probe = "SecretNotFound" THEN "NotFoundError"
    ELSE ""

\* _verify_neo4j_connection with _handle_neo4j_exception: the error that leaves the
\* pre-flight check, "" when it passes.  resolve_secret's NotFoundError is not caught.
verify_neo4j_connection(probe) ==
    IF probe \in {"AuthError", "ServiceUnavailable", "Neo4jError"} THEN "ValidationError"
    ELSE IF probe = "SecretNotFound" THEN "NotFoundError"
    ELSE ""

\* Jobs that block activate_connection.
running_sync_jobs(d, lab_id) ==
    {j \in d.processing_jobs :
        j.lab_id = lab_id /\ j.job_type \in {"index_rebuild", "sync"}
                          /\ j.status \in {"queued", "running"}}

deactivate_connections(d, lab_id) ==
    [d EXCEPT !.neo4j_connections =
        {IF c.lab_id = lab_id /\ c.is_active THEN [c EXCEPT !.is_active = FALSE] ELSE c
           : c \in @}]

\* The row create_connection adds: is_active=True whatever the lab already holds.
new_connection(new_id, lab_id, request, schema_id) ==
    [id |-> new_id, lab_id |-> lab_id, connection_name |-> request.connection_name,
     secret_id |-> request.secret_id, schema_id |-> schema_id, is_active |-> TRUE]

create_connection(d, new_id, user_id, lab_id, request, probe) ==
    IF ~is_admin_role(get_user_role_in_lab(d, user_id, lab_id))
    THEN Raise("AuthorizationError")
    ELSE IF ~LabIsLive(d, lab_id) THEN Raise("NotFoundError")
    ELSE IF \E c \in ConnectionsOfLab(d, lab_id) : c.connection_name = request.connection_name
         THEN Raise("ConflictError")
    ELSE IF request.schema_id # NoId
            /\ \A s \in SchemaById(d, request.schema_id) : s.lab_id # lab_id
         THEN Raise("NotFoundError")
    ELSE IF request.schema_id = NoId /\ ActiveSchemas(d, lab_id) = {}
         THEN Raise("ValidationError")
    ELSE IF verify_neo4j_connection(probe) # "" THEN Raise(verify_neo4j_connection(probe))
    ELSE LET schema_id == IF request.schema_id # NoId THEN request.schema_id
                          ELSE (CHOOSE s \in ActiveSchemas(d, lab_id) : TRUE).id
         IN  Return(<<[d EXCEPT !.neo4j_connections = @ \cup
                          {new_connection(new_id, lab_id, request, schema_id)}]>>, new_id)

\* The fields update_connection assigns, after its checks.
updated_connection(c, request) ==
    [c EXCEPT
       !.connection_name = IF request.connection_name # "" THEN request.connection_name ELSE @,
       !.secret_id = IF request.secret_id # "" THEN request.secret_id ELSE @,
       !.schema_id = IF request.schema_id # NoId THEN request.schema_id ELSE @]

update_connection(d, user_id, connection_id, request, probe) ==
    IF ConnectionById(d, connection_id) = {} THEN Raise("NotFoundError")
    ELSE LET connection == CHOOSE c \in ConnectionById(d, connection_id) : TRUE
         IN  IF ~is_admin_role(get_user_role_in_lab(d, user_id, connection.lab_id))
             THEN Raise("AuthorizationError")
             ELSE IF request.connection_name # ""
                     /\ request.connection_name # connection.connection_name
                     /\ \E c \in ConnectionsOfLab(d, connection.lab_id) :
                           c.connection_name = request.connection_name /\ c.id # connection_id
                  THEN Raise("ConflictError")
             ELSE IF request.schema_id # NoId
                     /\ \A s \in SchemaById(d, request.schema_id) : s.lab_id # connection.lab_id
                  THEN Raise("NotFoundError")
             ELSE IF request.secret_id # "" /\ verify_neo4j_connection(probe) # ""
                  THEN Raise(verify_neo4j_connection(probe))
             ELSE Return(<<[d EXCEPT !.neo4j_connections =
                              {IF c.id = connection_id THEN updated_connection(c, request)
                               ELSE c : c \in @}]>>, connection_id)

delete_connection(d, user_id, connection_id, force) ==
    IF ConnectionById(d, connection_id) = {} THEN Raise("NotFoundError")
    ELSE LET connection == CHOOSE c \in ConnectionById(d, connection_id) : TRUE
             is_lab_active == d.labs[connection.lab_id].active_connection_id = connection_id
             d1 == IF force /\ connection.is_active /\ is_lab_active
                   THEN [d EXCEPT !.labs[connection.lab_id].active_connection_id = NoId]
                   ELSE d
         IN  IF ~is_admin_role(get_user_role_in_lab(d, user_id, connection.lab_id))
             THEN Raise("AuthorizationError")
             ELSE IF ~force /\ connection.is_active /\ is_lab_active
                  THEN Raise("ConflictError")
             ELSE Commit([d1 EXCEPT !.neo4j_connections = {c \in @ : c.id # connection_id}],
                         NoId)

activate_connection(d, user_id, lab_id, connection_id) ==
    IF ~is_admin_role(get_user_role_in_lab(d, user_id, lab_id))
    THEN Raise("AuthorizationError")
    ELSE IF \A c \in ConnectionById(d, connection_id) : c.lab_id # lab_id
         THEN Raise("NotFoundError")
    ELSE IF ~LabIsLive(d, lab_id) THEN Raise("NotFoundError")
    ELSE IF running_sync_jobs(d, lab_id) # {} THEN Raise("ConflictError")
    ELSE LET d1 == deactivate_connections(d, lab_id)
             d2 == [d1 EXCEPT !.neo4j_connections =
                       {IF c.id = connection_id THEN [c EXCEPT !.is_active = TRUE] ELSE c
                          : c \in @}]
             d3 == [d2 EXCEPT !.labs[lab_id].active_connection_id = connection_id]
         IN  Return(<<d3>>, connection_id)

\* rotate_secret tests the new secret only when asked to; the except clause hands
\* AuthError, ServiceUnavailable and Neo4jError to _handle_neo4j_exception.
rotate_secret(d, user_id, connection_id, request, probe) ==
    IF ConnectionById(d, connection_id) = {} THEN Raise("NotFoundError")
    ELSE LET connection == CHOOSE c \in ConnectionById(d, connection_id) : TRUE
         IN  IF ~is_admin_role(get_user_role_in_lab(d, user_id, connection.lab_id))
             THEN Raise("AuthorizationError")
             ELSE IF request.test_before_rotation /\ verify_neo4j_connection(probe) # ""
                  THEN Raise(verify_neo4j_connection(probe))
             ELSE Return(<<[d EXCEPT !.neo4j_connections =
                              {IF c.id = connection_id
                               THEN [c EXCEPT !.secret_id = request.new_secret_id]
                               ELSE c : c \in @}]>>, connection_id)

(***************************************************************************)
(* LabService (services/lab.py): the lab's active_* pointers.              *)
(***************************************************************************)
\* LabService._user_can_manage_lab: the owner, or a member whose role is admin.
user_can_manage_lab(d, user_id, lab_id) ==
    \/ d.labs[lab_id].owner_id = user_id
    \/ \E m \in d.lab_members :
          m.lab_id = lab_id /\ m.user_id = user_id /\ m.role = "admin"

lab_activate_schema(d, user_id, lab_id, schema_id) ==
    IF ~LabIsLive(d, lab_id) THEN Raise("NotFoundError")
    ELSE IF ~user_can_manage_lab(d, user_id, lab_id) THEN Raise("AuthorizationError")
    ELSE IF \A s \in SchemaById(d, schema_id) : s.lab_id # lab_id THEN Raise("NotFoundError")
    ELSE Return(<<[d EXCEPT !.labs[lab_id].active_schema_id = schema_id]>>, lab_id)

lab_activate_connection(d, user_id, lab_id, connection_id) ==
    IF ~LabIsLive(d, lab_id) THEN Raise("NotFoundError")
    ELSE IF ~user_can_manage_lab(d, user_id, lab_id) THEN Raise("AuthorizationError")
    ELSE IF \A c \in ConnectionById(d, connection_id) : c.lab_id # lab_id
         THEN Raise("NotFoundError")
    ELSE Return(<<[d EXCEPT !.labs[lab_id].active_connection_id = connection_id]>>, lab_id)

(***************************************************************************)
(* The knowledge-graph requests as steps of the store.                     *)
(***************************************************************************)
ConnectionNames == {"n1", "n2"}

\* Secret references: connections are created under s1; s2 is the secret a later
\* update or rotation moves to.
SecretIds == {"s1"}

NewSecretIds == {"s2"}

\* The names the two labs start with.
LabNames == [L1 |-> "a", L2 |-> "b"]

\* users holds the ids of the user rows whose deleted_at is null, deleted_users the
\* ids of the rows whose deleted_at is set.
EmptyDb ==
    [labs |-> [l \in Labs |-> [name |-> LabNames[l], owner_id |-> "uo",
                               active_schema_id |-> NoId,
                               active_connection_id |-> NoId, deleted_at |-> FALSE]],
     lab_members |-> {[lab_id |-> "L1", user_id |-> "ua", role |-> "admin",
                       can_manage_members |-> TRUE, left_at |-> FALSE],
                      [lab_id |-> "L1", user_id |-> "uv", role |-> "viewer",
                       can_manage_members |-> FALSE, left_at |-> FALSE]},
     kg_schemas |-> {},
     neo4j_connections |-> {},
     processing_jobs |-> {},
     brainstorm_sessions |-> {},
     research_keywords |-> {},
     api_keys |-> {},
     users |-> Users,
     deleted_users |-> {}]

FirstIds ==
    [kg_schemas |-> 1, neo4j_connections |-> 1, processing_jobs |-> 1,
     brainstorm_sessions |-> 1, research_keywords |-> 1, api_keys |-> 1]

\* A process that has issued and blacklisted nothing.
NoTokens ==
    /\ blacklisted_tokens = {}
    /\ now = 0
    /\ issued = {}
    /\ exchanged = {}

NoRequest ==
    [op |-> "", result |-> "", lab_id |-> "", target |-> NoId, version |-> NoId,
     probe |-> "", active_before |-> {}, commits |-> <<>>]

\* The store after a request: its last commit; uncommitted work is dropped.
AfterRequest(d, out) ==
    IF out.commits = <<>> THEN d ELSE out.commits[Len(out.commits)]

\* A request against the store: table names the table a new row goes to ("" for none).
\* last keeps the operation, its outcome and what the pre-flight check answered; of a
\* request that succeeded it also keeps the lab, the row, the version asked for and
\* the rows that were active in the lab before it.
KgRequest(op, out, table, lab_id, target, version, probe, active_before) ==
    /\ db' = AfterRequest(db, out)
    /\ next_id' = IF table # "" /\ out.result = "ok"
                  THEN [next_id EXCEPT ![table] = @ + 1] ELSE next_id
    /\ last' = IF out.result = "ok"
               THEN [op |-> op, result |-> out.result, lab_id |-> lab_id,
                     target |-> target, version |-> version, probe |-> probe,
                     active_before |-> active_before, commits |-> out.commits]
               ELSE [NoRequest EXCEPT !.op = op, !.result = out.result, !.probe = probe,
                                      !.commits = out.commits]
    /\ UNCHANGED auth_vars

ActiveSchemaIds(d, lab_id) == {s.id : s \in ActiveSchemas(d, lab_id)}

ActiveConnectionIds(d, lab_id) == {c.id : c \in ActiveConnections(d, lab_id)}

LabOfSchema(d, schema_id) ==
    IF SchemaById(d, schema_id) = {} THEN ""
    ELSE (CHOOSE s \in SchemaById(d, schema_id) : TRUE).lab_id

LabOfConnection(d, connection_id) ==
    IF ConnectionById(d, connection_id) = {} THEN ""
    ELSE (CHOOSE c \in ConnectionById(d, connection_id) : TRUE).lab_id

\* The identifiers a client may send: those handed out so far and one that names no row.
SchemaIds == 1..MaxSchemas

ConnectionIds == 1..MaxConnections

CreateSchema ==
    /\ next_id.kg_schemas <= MaxSchemas
    /\ \E user_id \in Users, lab_id \in Labs, version \in 0..MaxVersion,
          schema_definition \in SchemaDefinitions, is_active \in BOOLEAN :
          KgRequest("create_schema",
                    create_schema(db, next_id.kg_schemas, user_id, lab_id,
                                  [version |-> version,
                                   schema_definition |-> schema_definition,
                                   is_active |-> is_active]),
                    "kg_schemas", lab_id, next_id.kg_schemas, version, "",
                    ActiveSchemaIds(db, lab_id))

ActivateSchema ==
    \E user_id \in Users, lab_id \in Labs, schema_id \in SchemaIds :
        KgRequest("activate_schema", activate_schema(db, user_id, lab_id, schema_id),
                  "", lab_id, schema_id, NoId, "", ActiveSchemaIds(db, lab_id))

DeleteSchema ==
    \E user_id \in Users, schema_id \in SchemaIds, force \in BOOLEAN :
        KgRequest("delete_schema", delete_schema(db, user_id, schema_id, force),
                  "", LabOfSchema(db, schema_id), schema_id, NoId, "",
                  ActiveSchemaIds(db, LabOfSchema(db, schema_id)))

CloneSchema ==
    /\ next_id.kg_schemas <= MaxSchemas
    /\ \E user_id \in Users, schema_id \in SchemaIds :
          KgRequest("clone_schema", clone_schema(db, next_id.kg_schemas, user_id, schema_id),
                    "kg_schemas", LabOfSchema(db, schema_id), next_id.kg_schemas, NoId, "",
                    ActiveSchemaIds(db, LabOfSchema(db, schema_id)))

ImportSchema ==
    /\ next_id.kg_schemas <= MaxSchemas
    /\ \E user_id \in Users, lab_id \in Labs, version \in 0..MaxVersion,
          schema_data \in SchemaDefinitions :
          KgRequest("import_schema",
                    import_schema(db, next_id.kg_schemas, user_id, lab_id,
                                  [schema_data |-> schema_data, version |-> version]),
                    "kg_schemas", lab_id, next_id.kg_schemas, version, "",
                    ActiveSchemaIds(db, lab_id))

MigrateSchema ==
    /\ next_id.processing_jobs <= MaxJobs
    /\ \E user_id \in Users, schema_id \in SchemaIds :
          KgRequest("migrate_schema",
                    migrate_schema(db, next_id.processing_jobs, user_id, schema_id),
                    "processing_jobs", LabOfSchema(db, schema_id), schema_id, NoId, "",
                    ActiveSchemaIds(db, LabOfSchema(db, schema_id)))

LabActivateSchema ==
    \E user_id \in Users, lab_id \in Labs, schema_id \in SchemaIds :
        KgRequest("lab_activate_schema", lab_activate_schema(db, user_id, lab_id, schema_id),
                  "", lab_id, schema_id, NoId, "", ActiveSchemaIds(db, lab_id))

CreateConnection ==
    /\ next_id.neo4j_connections <= MaxConnections
    /\ \E user_id \in Users, lab_id \in Labs, connection_name \in ConnectionNames,
          secret_id \in SecretIds, schema_id \in {NoId} \cup SchemaIds,
          probe \in ProbeOutcomes :
          KgRequest("create_connection",
                    create_connection(db, next_id.neo4j_connections, user_id, lab_id,
                                      [connection_name |-> connection_name,
                                       secret_id |-> secret_id, schema_id |-> schema_id],
                                      probe),
                    "neo4j_connections", lab_id, next_id.neo4j_connections, NoId, probe,
                    ActiveConnectionIds(db, lab_id))

\* The graph database is asked only when the request carries connection parameters.
UpdateConnection ==
    \E user_id \in Users, connection_id \in ConnectionIds,
       connection_name \in {"", "n2"}, secret_id \in {""} \cup NewSecretIds,
       schema_id \in {NoId, 2} :
        \E probe \in IF secret_id = "" THEN {""} ELSE ProbeOutcomes :
            KgRequest("update_connection",
                      update_connection(db, user_id, connection_id,
                                        [connection_name |-> connection_name,
                                         secret_id |-> secret_id, schema_id |-> schema_id],
                                        probe),
                      "", LabOfConnection(db, connection_id), connection_id, NoId, probe,
                      ActiveConnectionIds(db, LabOfConnection(db, connection_id)))

DeleteConnection ==
    \E user_id \in Users, connection_id \in ConnectionIds, force \in BOOLEAN :
        KgRequest("delete_connection", delete_connection(db, user_id, connection_id, force),
                  "", LabOfConnection(db, connection_id), connection_id, NoId, "",
                  ActiveConnectionIds(db, LabOfConnection(db, connection_id)))

ActivateConnection ==
    \E user_id \in Users, lab_id \in Labs, connection_id \in ConnectionIds :
        KgRequest("activate_connection",
                  activate_connection(db, user_id, lab_id, connection_id),
                  "", lab_id, connection_id, NoId, "", ActiveConnectionIds(db, lab_id))

\* The graph database is asked only when the request says test_before_rotation.
RotateSecret ==
    \E user_id \in Users, connection_id \in ConnectionIds, new_secret_id \in NewSecretIds,
       test_before_rotation \in BOOLEAN :
        \E probe \in IF test_before_rotation THEN ProbeOutcomes ELSE {""} :
            KgRequest("rotate_secret",
                      rotate_secret(db, user_id, connection_id,
                                    [new_secret_id |-> new_secret_id,
                                     test_before_rotation |-> test_before_rotation],
                                    probe),
                      "", LabOfConnection(db, connection_id), connection_id, NoId, probe,
                      ActiveConnectionIds(db, LabOfConnection(db, connection_id)))

LabActivateConnection ==
    \E user_id \in Users, lab_id \in Labs, connection_id \in ConnectionIds :
        KgRequest("lab_activate_connection",
                  lab_activate_connection(db, user_id, lab_id, connection_id),
                  "", lab_id, connection_id, NoId, "", ActiveConnectionIds(db, lab_id))

(***************************************************************************)
(* The schema requests, from a store with no schema.                       *)
(***************************************************************************)
InitSchemas ==
    /\ db = EmptyDb
    /\ next_id = FirstIds
    /\ last = NoRequest
    /\ NoTokens

NextSchemas ==
    \/ CreateSchema
    \/ ActivateSchema
    \/ DeleteSchema
    \/ CloneSchema
    \/ ImportSchema
    \/ MigrateSchema
    \/ LabActivateSchema

SpecSchemas == InitSchemas /\ [][NextSchemas]_vars

(***************************************************************************)
(* The connection requests, from a store where lab L1 holds two schema     *)
(* versions, the first one active, and lab L2 holds none.                  *)
(***************************************************************************)
SeededSchemas ==
    {[id |-> 1, lab_id |-> "L1", version |-> 1, is_active |-> TRUE],
     [id |-> 2, lab_id |-> "L1", version |-> 2, is_active |-> FALSE]}

InitConnections ==
    /\ db = [EmptyDb EXCEPT !.kg_schemas = SeededSchemas,
                            !.labs["L1"].active_schema_id = 1]
    /\ next_id = [FirstIds EXCEPT !.kg_schemas = 3]
    /\ last = NoRequest
    /\ NoTokens

NextConnections ==
    \/ CreateConnection
    \/ UpdateConnection
    \/ DeleteConnection
    \/ ActivateConnection
    \/ RotateSecret
    \/ LabActivateConnection

SpecConnections == InitConnections /\ [][NextConnections]_vars

(***************************************************************************)
(* Properties of the schema requests.                                      *)
(***************************************************************************)
\* C1: after any sequence of KgSchemaService requests, run one at a time, a lab has at
\* most one schema with is_active = TRUE.
AtMostOneActiveSchema ==
    \A lab_id \in Labs : Cardinality(ActiveSchemas(db, lab_id)) <= 1

\* A schema was created active in a lab that already had an active one.
CreatedActiveOverActive ==
    /\ last.op = "create_schema" /\ last.result = "ok"
    /\ last.active_before # {}
    /\ \E s \in SchemaById(db, last.target) : s.is_active
    /\ \E a \in last.active_before : SchemaById(db, a) # {}

\* C3: when activate_schema succeeds for schema B in a lab whose active schema was A,
\* then A is inactive, B is active, the lab points to B, and every state the call
\* committed has exactly one active schema in the lab.
ActivationSwitchesAtomically ==
    (/\ last.op = "activate_schema" /\ last.result = "ok"
     /\ last.active_before \ {last.target} # {})
    => /\ \A a \in last.active_before \ {last.target} :
             \A s \in SchemaById(db, a) : ~s.is_active
       /\ \E s \in SchemaById(db, last.target) : s.is_active
       /\ db.labs[last.lab_id].active_schema_id = last.target
       /\ last.commits # <<>>
       /\ \A i \in 1..Len(last.commits) :
             Cardinality(ActiveSchemas(last.commits[i], last.lab_id)) = 1

\* activate_schema moved the active flag from one schema of the lab to another.
ActivatedOverAnother ==
    /\ last.op = "activate_schema" /\ last.result = "ok"
    /\ \E a \in last.active_before :
          /\ a # last.target
          /\ \E s \in SchemaById(db, a) : s.lab_id = last.lab_id

VersionsOfLab(d, lab_id) == {s.version : s \in SchemasOfLab(d, lab_id)}

\* An explicit version the lab already has is refused, whatever else the request says.
DuplicateVersionRefused(d) ==
    \A user_id \in Users, lab_id \in Labs, schema_definition \in SchemaDefinitions,
       is_active \in BOOLEAN :
        \A version \in VersionsOfLab(d, lab_id) :
            LET out == create_schema(d, next_id.kg_schemas, user_id, lab_id,
                                     [version |-> version,
                                      schema_definition |-> schema_definition,
                                      is_active |-> is_active])
            IN  /\ out.commits = <<>>
                /\ user_can_manage_schemas(d, user_id, lab_id) => out.result = "ConflictError"

\* C6: create_schema without a version stores the lab's maximum version plus one (1 in
\* a lab with no schema); with a version the lab already has it raises ConflictError
\* and adds nothing; the versions of a lab stay pairwise distinct.  (A successful
\* create adds one row to the lab and changes no version, so the versions the lab had
\* before are those of its other rows.)
VersionsAutoIncrementAndStayDistinct ==
    /\ DuplicateVersionRefused(db)
    /\ (last.op = "create_schema" /\ last.result = "ok")
       => \E s \in SchemaById(db, last.target) :
             LET before == {r.version : r \in SchemasOfLab(db, last.lab_id) \ {s}}
             IN  /\ s.lab_id = last.lab_id
                 /\ s.version = IF last.version = NoId THEN SetMax(before) + 1
                                ELSE last.version
                 /\ s.version \notin before
    /\ (last.op = "create_schema" /\ last.result = "ConflictError") => last.commits = <<>>
    /\ \A lab_id \in Labs :
          \A s1, s2 \in SchemasOfLab(db, lab_id) : s1.version = s2.version => s1 = s2

\* Three creates without a version gave an empty lab the versions 1, 2, 3 in order.
ThreeVersionsInOrder ==
    /\ last.op = "create_schema" /\ last.result = "ok" /\ last.version = NoId
    /\ last.target = 3
    /\ {<<s.id, s.version>> : s \in SchemasOfLab(db, last.lab_id)}
          = {<<1, 1>>, <<2, 2>>, <<3, 3>>}

(***************************************************************************)
(* Properties of the connection requests.                                  *)
(***************************************************************************)
\* C2: after any sequence of Neo4jConnectionService requests, run one at a time, a lab
\* has at most one connection with is_active = TRUE.
AtMostOneActiveConnection ==
    \A lab_id \in Labs : Cardinality(ActiveConnections(db, lab_id)) <= 1

\* The outcomes of the connectivity check the service turns into ValidationError:
\* authentication failure, unreachable server, driver error.
ConnectivityFailures == {"AuthError", "ServiceUnavailable", "Neo4jError"}

UpdateRequests ==
    [connection_name : {""} \cup ConnectionNames, secret_id : NewSecretIds,
     schema_id : {NoId} \cup SchemaIds]

CreateRequests ==
    [connection_name : ConnectionNames, secret_id : SecretIds,
     schema_id : {NoId} \cup SchemaIds]

\* Every request that would pass with a reachable database raises ValidationError and
\* commits nothing when the check fails.
FailedCheckRefused(d) ==
    \A user_id \in Users, probe \in ConnectivityFailures :
        /\ \A lab_id \in Labs, request \in CreateRequests :
              create_connection(d, next_id.neo4j_connections, user_id, lab_id,
                                request, "ok").result = "ok"
              => create_connection(d, next_id.neo4j_connections, user_id, lab_id,
                                   request, probe) = Raise("ValidationError")
        /\ \A connection_id \in ConnectionIds :
              /\ \A request \in UpdateRequests :
                    update_connection(d, user_id, connection_id, request, "ok").result = "ok"
                    => update_connection(d, user_id, connection_id, request, probe)
                          = Raise("ValidationError")
              /\ \A new_secret_id \in NewSecretIds :
                    LET request == [new_secret_id |-> new_secret_id,
                                    test_before_rotation |-> TRUE]
                    IN  rotate_secret(d, user_id, connection_id, request, "ok").result = "ok"
                        => rotate_secret(d, user_id, connection_id, request, probe)
                              = Raise("ValidationError")

\* C7: when the connectivity check fails (authentication failure, unreachable, driver
\* error), create_connection raises ValidationError and stores no row, and
\* update_connection and rotate_secret with test_before_rotation raise ValidationError
\* and leave the stored connections, secret_id included, as they were.
FailedConnectivityCheckChangesNothing ==
    /\ FailedCheckRefused(db)
    /\ (/\ last.op \in {"create_connection", "update_connection", "rotate_secret"}
        /\ last.probe \in ConnectivityFailures)
       => /\ last.result # "ok"
          /\ last.commits = <<>>

\* A rotation to a secret the graph database refused: the connection keeps its secret.
RotationRefusedByCheck ==
    /\ last.op = "rotate_secret" /\ last.result = "ValidationError"
    /\ last.probe = "AuthError"
    /\ \E c \in db.neo4j_connections : c.secret_id \in SecretIds

(***************************************************************************)
(* LabMemberService (services/lab_member.py).  A membership row is         *)
(* [lab_id, user_id, role, can_manage_members, left_at]; an optional field *)
(* of an update request is a sequence, <<>> for None and <<v>> for v.      *)
(***************************************************************************)
MaxMembers == 2

MemberRoles == {"admin", "viewer"}

MemberOf(d, lab_id, user_id) ==
    {m \in d.lab_members : m.lab_id = lab_id /\ m.user_id = user_id}

\* _user_can_manage_members: the owner of a live lab, or an admin member of it that
\* holds the can_manage_members grant.
user_can_manage_members(d, user_id, lab_id) ==
    /\ LabIsLive(d, lab_id)
    /\ \/ d.labs[lab_id].owner_id = user_id
       \/ \E m \in MemberOf(d, lab_id, user_id) : m.role = "admin" /\ m.can_manage_members

\* A count of all the lab's membership rows, whatever their role.
member_count(d, lab_id) == Cardinality({m \in d.lab_members : m.lab_id = lab_id})

\* The admin_count query of update_member and remove_member.
admin_count(d, lab_id) ==
    Cardinality({m \in d.lab_members : m.lab_id = lab_id /\ m.role = "admin"})

add_member(d, current_user_id, lab_id, request) ==
    IF ~LabIsLive(d, lab_id) THEN Raise("NotFoundError")
    ELSE IF ~user_can_manage_members(d, current_user_id, lab_id)
         THEN Raise("AuthorizationError")
    ELSE IF request.user_id \notin d.users THEN Raise("NotFoundError")
    ELSE IF MemberOf(d, lab_id, request.user_id) # {} THEN Raise("ConflictError")
    ELSE Return(<<[d EXCEPT !.lab_members = @ \cup
                     {[lab_id |-> lab_id, user_id |-> request.user_id,
                       role |-> request.role,
                       can_manage_members |-> request.can_manage_members,
                       left_at |-> FALSE]}]>>, NoId)

update_member(d, current_user_id, lab_id, user_id, request) ==
    IF ~user_can_manage_members(d, current_user_id, lab_id)
    THEN Raise("AuthorizationError")
    ELSE IF MemberOf(d, lab_id, user_id) = {} THEN Raise("NotFoundError")
    ELSE LET member == CHOOSE m \in MemberOf(d, lab_id, user_id) : TRUE
             updated == [member EXCEPT
                           !.role = IF request.role # <<>> THEN request.role[1] ELSE @,
                           !.can_manage_members =
                               IF request.can_manage_members # <<>>
                               THEN request.can_manage_members[1] ELSE @]
         IN  IF /\ request.role # <<>> /\ request.role[1] # "admin"
                /\ admin_count(d, lab_id) <= 1 /\ member.role = "admin"
             THEN Raise("ConflictError")
             ELSE Return(<<[d EXCEPT !.lab_members = (@ \ {member}) \cup {updated}]>>, NoId)

remove_member(d, current_user_id, lab_id, user_id) ==
    IF ~user_can_manage_members(d, current_user_id, lab_id)
    THEN Raise("AuthorizationError")
    ELSE IF MemberOf(d, lab_id, user_id) = {} THEN Raise("NotFoundError")
    ELSE LET member == CHOOSE m \in MemberOf(d, lab_id, user_id) : TRUE
         IN  IF member.role = "admin" /\ admin_count(d, lab_id) <= 1
             THEN Raise("ConflictError")
             ELSE Return(<<[d EXCEPT !.lab_members = @ \ {member}]>>, NoId)

(***************************************************************************)
(* The membership requests as steps of the store.                          *)
(***************************************************************************)
RoleOf(d, lab_id, user_id) ==
    IF MemberOf(d, lab_id, user_id) = {} THEN ""
    ELSE (CHOOSE m \in MemberOf(d, lab_id, user_id) : TRUE).role

\* last keeps the operation and its outcome, whether the caller could manage the lab's
\* members, the role asked for, the role the target held and the number of admins in
\* the lab before the request.
MemberRequest(op, out, current_user_id, lab_id, user_id, role) ==
    /\ db' = AfterRequest(db, out)
    /\ last' = [op |-> op, result |-> out.result, lab_id |-> lab_id, target |-> user_id,
                role |-> role,
                caller_can_manage |-> user_can_manage_members(db, current_user_id, lab_id),
                role_before |-> RoleOf(db, lab_id, user_id),
                admins_before |-> admin_count(db, lab_id),
                commits |-> out.commits]
    /\ UNCHANGED <<next_id, auth_vars>>

AddMember ==
    /\ Cardinality(db.lab_members) < MaxMembers
    /\ \E current_user_id \in Users, lab_id \in Labs, user_id \in Users,
          role \in MemberRoles, can_manage_members \in BOOLEAN :
          MemberRequest("add_member",
                        add_member(db, current_user_id, lab_id,
                                   [user_id |-> user_id, role |-> role,
                                    can_manage_members |-> can_manage_members]),
                        current_user_id, lab_id, user_id, <<role>>)

UpdateMember ==
    \E current_user_id \in Users, lab_id \in Labs, user_id \in Users,
       role \in {<<>>} \cup {<<r>> : r \in MemberRoles},
       can_manage_members \in {<<>>, <<TRUE>>, <<FALSE>>} :
        MemberRequest("update_member",
                      update_member(db, current_user_id, lab_id, user_id,
                                    [role |-> role,
                                     can_manage_members |-> can_manage_members]),
                      current_user_id, lab_id, user_id, role)

RemoveMember ==
    \E current_user_id \in Users, lab_id \in Labs, user_id \in Users :
        MemberRequest("remove_member",
                      remove_member(db, current_user_id, lab_id, user_id),
                      current_user_id, lab_id, user_id, <<>>)

InitMembers ==
    /\ db = EmptyDb
    /\ next_id = FirstIds
    /\ last = NoRequest
    /\ NoTokens

NextMembers ==
    \/ AddMember
    \/ UpdateMember
    \/ RemoveMember

SpecMembers == InitMembers /\ [][NextMembers]_vars

\* A request that takes the admin role from its target: a demotion or a removal.
TakesAdminRole ==
    /\ \/ last.op = "remove_member"
       \/ last.op = "update_member" /\ last.role # <<>> /\ last.role # <<"admin">>
    /\ last.caller_can_manage
    /\ last.role_before = "admin"

\* C4: for a caller who may manage the lab's members, demoting (update_member to a
\* role other than admin) or removing the only admin member of a lab raises
\* ConflictError and changes no membership row; with two admin members, either
\* request on one of them succeeds.
LastAdminIsProtected ==
    TakesAdminRole
    => /\ last.admins_before = 1
          => last.result = "ConflictError" /\ last.commits = <<>>
       /\ last.admins_before >= 2
          => /\ last.result = "ok"
             /\ admin_count(db, last.lab_id) = last.admins_before - 1
             /\ RoleOf(db, last.lab_id, last.target) # "admin"

\* The demotion of a lab's only admin was refused while the lab had another member.
LastAdminDemotionRefused ==
    /\ TakesAdminRole
    /\ last.op = "update_member"
    /\ last.result = "ConflictError"
    /\ admin_count(db, last.lab_id) = 1
    /\ member_count(db, last.lab_id) = 2

(***************************************************************************)
(* ResearchKeywordService (services/research_keyword.py) and the clone of  *)
(* a session (services/brainstorm_session.py).  A keyword row is           *)
(* [id, session_id, term, weight]; weight stands for the mutable fields    *)
(* of a keyword (weight, source, rationale, is_primary, approved_by_user). *)
(* An optional field is a sequence, <<>> for None and <<v>> for v.         *)
(***************************************************************************)
MaxKeywords == 2
MaxSessions == 2
MaxItems == 2

\* The spellings of each word a client may send, by their lower-case form.
Spellings == [ai |-> {"ai", "AI"}, ml |-> {"ml"}]

Terms == UNION {Spellings[w] : w \in DOMAIN Spellings}

\* str.lower() / func.lower().
lower(term) == CHOOSE w \in DOMAIN Spellings : term \in Spellings[w]

\* session_data is <<>> for None and <<data>> for a JSON object, of which the model
\* keeps the conversation (no turn when the key is missing) and the finalized flag.
NoSessionData == <<>>

\* The empty object {}.  The objects of the model are {}, the objects requests carry
\* and what the operations make of them, so an object with no turn and no finalized
\* flag is {}; None and {} are the two values Python takes for false.
EmptySessionData == [conversation |-> <<>>, finalized |-> FALSE]

Falsy(session_data) == session_data \in {NoSessionData, <<EmptySessionData>>}

SessionById(d, session_id) ==
    {s \in d.brainstorm_sessions : s.id = session_id /\ ~s.deleted_at}

KeywordsOfSession(d, session_id) ==
    {k \in d.research_keywords : k.session_id = session_id}

KeywordById(d, keyword_id) == {k \in d.research_keywords : k.id = keyword_id}

\* _get_user_lab_role: None ("") for a deleted lab, owner for its owner, else the role
\* of the membership row.
get_user_lab_role(d, user_id, lab_id) ==
    IF ~LabIsLive(d, lab_id) THEN ""
    ELSE IF d.labs[lab_id].owner_id = user_id THEN "owner"
    ELSE RoleOf(d, lab_id, user_id)

\* _get_session_with_permissions: the error it raises, "" when it returns the session.
session_permission_error(d, current_user_id, session_id, required_permission) ==
    IF SessionById(d, session_id) = {} THEN "NotFoundError"
    ELSE LET session == CHOOSE s \in SessionById(d, session_id) : TRUE
             user_role == get_user_lab_role(d, current_user_id, session.lab_id)
         IN  IF user_role = "" \/ ~can_perform(user_role, required_permission)
             THEN "AuthorizationError" ELSE ""

\* _get_keyword_with_permissions: the error it raises, "" when it returns the keyword.
keyword_permission_error(d, current_user_id, keyword_id, required_permission) ==
    IF KeywordById(d, keyword_id) = {} THEN "NotFoundError"
    ELSE session_permission_error(d, current_user_id,
                                  (CHOOSE k \in KeywordById(d, keyword_id) : TRUE).session_id,
                                  required_permission)

\* A lookup that compares the stored term with the request's term as they are spelled.
keyword_by_exact_term(d, session_id, term) ==
    {k \in KeywordsOfSession(d, session_id) : k.term = term}

\* The duplicate lookup: func.lower(ResearchKeyword.term) == request.term.lower().
keyword_by_term(d, session_id, term) ==
    {k \in KeywordsOfSession(d, session_id) : lower(k.term) = lower(term)}

ReplaceKeyword(d, old, new) ==
    [d EXCEPT !.research_keywords = (@ \ {old}) \cup {new}]

create_keyword(d, new_id, current_user_id, session_id, request, upsert) ==
    LET err == session_permission_error(d, current_user_id, session_id, "create_brainstorm")
        found == keyword_by_term(d, session_id, request.term)
    IN  IF err # "" THEN Raise(err)
        ELSE IF found # {}
        THEN LET existing == CHOOSE k \in found : TRUE
             IN  IF upsert
                 THEN Return(<<ReplaceKeyword(d, existing,
                                 [existing EXCEPT !.weight = IF request.weight # <<>>
                                                              THEN request.weight ELSE @])>>,
                             existing.id)
                 ELSE Raise("ConflictError")
        ELSE Return(<<[d EXCEPT !.research_keywords = @ \cup
                         {[id |-> new_id, session_id |-> session_id,
                           term |-> lower(request.term), weight |-> request.weight]}]>>,
                    new_id)

\* One item of a bulk request against the rows of the open transaction.
bulk_item_merging_as_upsert(d, new_id, session_id, item, mode) ==
    LET found == keyword_by_term(d, session_id, item.term)
    IN  IF found # {}
        THEN LET existing_keyword == CHOOSE k \in found : TRUE
             IN  IF mode = "skip" THEN d
                 ELSE IF mode = "upsert"
                 THEN ReplaceKeyword(d, existing_keyword,
                         [existing_keyword EXCEPT !.weight = IF item.weight # <<>>
                                                             THEN item.weight ELSE @])
                 ELSE IF item.weight # <<>>
                 THEN ReplaceKeyword(d, existing_keyword,
                                     [existing_keyword EXCEPT !.weight = item.weight])
                 ELSE d
        ELSE [d EXCEPT !.research_keywords = @ \cup
                 {[id |-> new_id, session_id |-> session_id,
                   term |-> lower(item.term), weight |-> item.weight]}]

bulk_item(d, new_id, session_id, item, mode) ==
    LET found == keyword_by_term(d, session_id, item.term)
    IN  IF found # {}
        THEN LET existing_keyword == CHOOSE k \in found : TRUE
             IN  IF mode = "skip" THEN d
                 ELSE IF mode = "upsert"
                 THEN ReplaceKeyword(d, existing_keyword,
                         [existing_keyword EXCEPT !.weight = IF item.weight # <<>>
                                                             THEN item.weight ELSE @])
                 ELSE IF /\ item.weight # <<>> /\ item.weight[1] # 0
                         /\ \/ existing_keyword.weight = <<>>
                            \/ existing_keyword.weight[1] = 0
                            \/ item.weight[1] > existing_keyword.weight[1]
                 THEN ReplaceKeyword(d, existing_keyword,
                                     [existing_keyword EXCEPT !.weight = item.weight])
                 ELSE d
        ELSE [d EXCEPT !.research_keywords = @ \cup
                 {[id |-> new_id, session_id |-> session_id,
                   term |-> lower(item.term), weight |-> item.weight]}]

RECURSIVE bulk_items(_, _, _, _, _)
bulk_items(d, new_id, session_id, items, mode) ==
    IF items = <<>> THEN d
    ELSE LET d1 == bulk_item(d, new_id, session_id, Head(items), mode)
         IN  bulk_items(d1,
                        IF Cardinality(d1.research_keywords) > Cardinality(d.research_keywords)
                        THEN new_id + 1 ELSE new_id,
                        session_id, Tail(items), mode)

\* bulk_create_keywords: every item in one transaction, one commit at the end; value
\* is the number of rows created.
bulk_create_keywords(d, new_id, current_user_id, session_id, request) ==
    LET err == session_permission_error(d, current_user_id, session_id, "create_brainstorm")
        d1 == bulk_items(d, new_id, session_id, request.items, request.mode)
    IN  IF err # "" THEN Raise(err)
        ELSE Return(<<d1>>, Cardinality(d1.research_keywords) - Cardinality(d.research_keywords))

update_keyword(d, current_user_id, keyword_id, request) ==
    LET err == keyword_permission_error(d, current_user_id, keyword_id, "create_brainstorm")
    IN  IF err # "" THEN Raise(err)
        ELSE LET keyword == CHOOSE k \in KeywordById(d, keyword_id) : TRUE
             IN  IF /\ request.term # <<>>
                    /\ lower(request.term[1]) # lower(keyword.term)
                    /\ keyword_by_term(d, keyword.session_id, request.term[1]) \ {keyword} # {}
                 THEN Raise("ConflictError")
                 ELSE Return(<<ReplaceKeyword(d, keyword,
                                 [keyword EXCEPT
                                    !.term = IF request.term # <<>>
                                             THEN lower(request.term[1]) ELSE @,
                                    !.weight = IF request.weight # <<>>
                                               THEN request.weight ELSE @])>>,
                             keyword_id)

delete_keyword(d, current_user_id, keyword_id) ==
    LET err == keyword_permission_error(d, current_user_id, keyword_id, "create_brainstorm")
    IN  IF err # "" THEN Raise(err)
        ELSE Return(<<[d EXCEPT !.research_keywords = {k \in @ : k.id # keyword_id}]>>, NoId)

\* The copies clone_session makes of the original session's keywords, with fresh ids
\* in the order of the originals' ids.
RECURSIVE copy_keywords(_, _, _)
copy_keywords(keywords, new_session_id, new_id) ==
    IF keywords = {} THEN {}
    ELSE LET keyword == CHOOSE k \in keywords : \A o \in keywords : k.id <= o.id
         IN  {[id |-> new_id, session_id |-> new_session_id, term |-> keyword.term,
               weight |-> keyword.weight]}
             \cup copy_keywords(keywords \ {keyword}, new_session_id, new_id + 1)

clone_session(d, new_session_id, new_id, current_user_id, session_id) ==
    LET err == session_permission_error(d, current_user_id, session_id, "view_data")
    IN  IF err # "" THEN Raise(err)
        ELSE LET original_session == CHOOSE s \in SessionById(d, session_id) : TRUE
                 user_role == get_user_lab_role(d, current_user_id, original_session.lab_id)
             IN  IF user_role = "" \/ ~can_perform(user_role, "create_brainstorm")
                 THEN Raise("AuthorizationError")
                 ELSE Return(<<[d EXCEPT
                                  !.brainstorm_sessions = @ \cup
                                      {[id |-> new_session_id,
                                        lab_id |-> original_session.lab_id,
                                        deleted_at |-> FALSE, status |-> "active",
                                        session_data |->
                                            IF Falsy(original_session.session_data)
                                            THEN NoSessionData
                                            ELSE original_session.session_data]},
                                  !.research_keywords = @ \cup
                                      copy_keywords(KeywordsOfSession(d, session_id),
                                                    new_session_id, new_id)]>>,
                             new_session_id)

(***************************************************************************)
(* The keyword requests as steps of the store.                             *)
(***************************************************************************)
SessionIds == 1..MaxSessions

KeywordIds == 1..MaxKeywords

Weights == {<<>>, <<2>>}

BulkItems == [term : Terms, weight : {<<1>>}]

BulkItemLists == UNION {[1..n -> BulkItems] : n \in 1..MaxItems}

NoKeywordRequest ==
    [op |-> "", result |-> "", value |-> NoId, session_id |-> NoId, term |-> <<>>,
     upsert |-> FALSE, permitted |-> FALSE, collided |-> {}, ids_before |-> {},
     commits |-> <<>>]

\* last keeps the operation and its outcome; of a request that passed the permission
\* check (error is what the check raised, "" for nothing) it also keeps the session, the
\* term sent and whether it was an upsert, the ids of the rows that collided with the
\* term and the ids of the session's rows before the request.
KeywordRequest(op, out, error, session_id, term, upsert) ==
    /\ db' = AfterRequest(db, out)
    /\ next_id' = [next_id EXCEPT
                     !.research_keywords =
                         @ + Cardinality({k \in AfterRequest(db, out).research_keywords :
                                            k.id >= @}),
                     !.brainstorm_sessions =
                         @ + Cardinality({s \in AfterRequest(db, out).brainstorm_sessions :
                                            s.id >= @})]
    /\ last' = IF error # ""
               THEN [NoKeywordRequest EXCEPT !.op = op, !.result = out.result]
               ELSE [op |-> op, result |-> out.result, value |-> out.value,
                     session_id |-> session_id, term |-> term, upsert |-> upsert,
                     permitted |-> TRUE,
                     collided |-> IF term = <<>> THEN {}
                                  ELSE {k.id : k \in {r \in KeywordsOfSession(db, session_id) :
                                                        lower(r.term) = lower(term[1])}},
                     ids_before |-> {k.id : k \in KeywordsOfSession(db, session_id)},
                     commits |-> out.commits]
    /\ UNCHANGED auth_vars

CreateKeyword ==
    /\ next_id.research_keywords <= MaxKeywords
    /\ \E current_user_id \in Users, session_id \in SessionIds, term \in Terms,
          weight \in Weights, upsert \in BOOLEAN :
          KeywordRequest("create_keyword",
                         create_keyword(db, next_id.research_keywords, current_user_id,
                                        session_id, [term |-> term, weight |-> weight],
                                        upsert),
                         session_permission_error(db, current_user_id, session_id,
                                                  "create_brainstorm"),
                         session_id, <<term>>, upsert)

BulkCreateKeywords ==
    \E current_user_id \in Users, session_id \in SessionIds, items \in BulkItemLists,
       mode \in {"skip", "upsert", "merge"} :
        /\ next_id.research_keywords + Len(items) - 1 <= MaxKeywords
        /\ KeywordRequest("bulk_create_keywords",
                          bulk_create_keywords(db, next_id.research_keywords,
                                               current_user_id, session_id,
                                               [items |-> items, mode |-> mode]),
                          session_permission_error(db, current_user_id, session_id,
                                                   "create_brainstorm"),
                          session_id, <<>>, mode = "upsert")

UpdateKeyword ==
    \E current_user_id \in Users, keyword_id \in KeywordIds,
       term \in {<<>>} \cup {<<w>> : w \in Terms}, weight \in Weights :
        KeywordRequest("update_keyword",
                       update_keyword(db, current_user_id, keyword_id,
                                      [term |-> term, weight |-> weight]),
                       keyword_permission_error(db, current_user_id, keyword_id,
                                                "create_brainstorm"),
                       IF KeywordById(db, keyword_id) = {} THEN NoId
                       ELSE (CHOOSE k \in KeywordById(db, keyword_id) : TRUE).session_id,
                       term, FALSE)

DeleteKeyword ==
    \E current_user_id \in Users, keyword_id \in KeywordIds :
        KeywordRequest("delete_keyword", delete_keyword(db, current_user_id, keyword_id),
                       keyword_permission_error(db, current_user_id, keyword_id,
                                                "create_brainstorm"),
                       IF KeywordById(db, keyword_id) = {} THEN NoId
                       ELSE (CHOOSE k \in KeywordById(db, keyword_id) : TRUE).session_id,
                       <<>>, FALSE)

CloneSession ==
    \E current_user_id \in Users, session_id \in SessionIds :
        /\ next_id.brainstorm_sessions <= MaxSessions
        /\ next_id.research_keywords + Cardinality(KeywordsOfSession(db, session_id)) - 1
              <= MaxKeywords
        /\ KeywordRequest("clone_session",
                          clone_session(db, next_id.brainstorm_sessions,
                                        next_id.research_keywords, current_user_id,
                                        session_id),
                          session_permission_error(db, current_user_id, session_id,
                                                   "view_data"),
                          session_id, <<>>, FALSE)

\* Lab L1 holds one brainstorm session with no keyword.
InitKeywords ==
    /\ db = [EmptyDb EXCEPT !.brainstorm_sessions =
                {[id |-> 1, lab_id |-> "L1", deleted_at |-> FALSE, status |-> "active",
                  session_data |-> NoSessionData]}]
    /\ next_id = [FirstIds EXCEPT !.brainstorm_sessions = 2]
    /\ last = NoRequest
    /\ NoTokens

NextKeywords ==
    \/ CreateKeyword
    \/ BulkCreateKeywords
    \/ UpdateKeyword
    \/ DeleteKeyword
    \/ CloneSession

SpecKeywords == InitKeywords /\ [][NextKeywords]_vars

\* Two terms are equal when compared case-insensitively: spellings of one word.
SameIgnoringCase(a, b) == \E w \in DOMAIN Spellings : {a, b} \subseteq Spellings[w]

\* C5: no two keyword rows of a session have terms that are equal when compared
\* case-insensitively; create_keyword on a colliding term raises ConflictError and
\* adds no row without upsert, and with upsert updates the row that is there instead
\* of adding one.
KeywordTermsUniquePerSession ==
    /\ \A k1, k2 \in db.research_keywords :
          (k1.session_id = k2.session_id /\ SameIgnoringCase(k1.term, k2.term)) => k1 = k2
    /\ (last.op = "create_keyword" /\ last.permitted /\ last.collided # {})
       => IF last.upsert
          THEN /\ last.result = "ok"
               /\ last.value \in last.collided
               /\ {k.id : k \in KeywordsOfSession(db, last.session_id)}
                     = last.ids_before
          ELSE /\ last.result = "ConflictError"
               /\ last.commits = <<>>

\* A create_keyword whose term differs only in case from a stored one was refused.
CollidingCreateRefused ==
    /\ last.op = "create_keyword" /\ last.result = "ConflictError"
    /\ last.term = <<"AI">>
    /\ \E k \in KeywordsOfSession(db, last.session_id) : k.term = "ai"

(***************************************************************************)
(* Tokens (core/auth.py, utils/auth.py) and the token functions of         *)
(* services/auth.py.  A token is its signed payload: a record with the key *)
(* it was signed with, its type, its user, and its exp (and iat, in        *)
(* core/auth.py) in ticks of the clock; two tokens with the same payload   *)
(* under the same key are the same string.  db.users holds the users that  *)
(* are not soft-deleted.                                                   *)
(***************************************************************************)
\* Lifetimes in ticks of the clock, and the last tick.
AccessLifetime == 1
RefreshLifetime == 2
MaxTime == 3
MaxTokens == 4

\* JWT_SECRET_KEY of core/auth.py and SECRET_KEY of utils/auth.py.
CoreKey == "JWT_SECRET_KEY"

UtilsKey == "SECRET_KEY"

\* A string that is not a token signed with either key.
Garbage == [key |-> "", type |-> "", user_id |-> "", exp |-> 0]

\* core/auth.py create_access_token, create_refresh_token, create_token_pair at tick t.
create_access_token(user_id, t) ==
    [key |-> CoreKey, type |-> "access", user_id |-> user_id, iat |-> t,
     exp |-> t + AccessLifetime]

create_refresh_token(user_id, t) ==
    [key |-> CoreKey, type |-> "refresh", user_id |-> user_id, iat |-> t,
     exp |-> t + RefreshLifetime]

create_token_pair(user_id, t) ==
    [access_token |-> create_access_token(user_id, t),
     refresh_token |-> create_refresh_token(user_id, t)]

\* utils/auth.py create_access_token and create_refresh_token (no iat claim).
utils_create_access_token(user_id, t) ==
    [key |-> UtilsKey, type |-> "access", user_id |-> user_id, exp |-> t + AccessLifetime]

utils_create_refresh_token(user_id, t) ==
    [key |-> UtilsKey, type |-> "refresh", user_id |-> user_id, exp |-> t + RefreshLifetime]

\* jwt.decode: the signature under the key, then the exp claim.
jwt_decode(token, key, t) ==
    IF token.key # key THEN "JWTError"
    ELSE IF token.exp < t THEN "ExpiredSignatureError"
    ELSE ""

blacklist_token(blacklist, token) == blacklist \cup {token}

is_token_blacklisted(blacklist, token) == token \in blacklist

\* A verification that does not look at the blacklist.
verify_token_skipping_blacklist(blacklist, token, token_type, t) ==
    IF jwt_decode(token, CoreKey, t) # "" THEN "JWTError"
    ELSE IF token.type # token_type THEN "JWTError"
    ELSE ""

\* A verification that does not look at the type claim.
verify_token_of_any_type(blacklist, token, token_type, t) ==
    IF is_token_blacklisted(blacklist, token) THEN "JWTError"
    ELSE IF jwt_decode(token, CoreKey, t) # "" THEN "JWTError"
    ELSE ""

\* core/auth.py verify_token: the error it raises, "" when it returns the payload.
verify_token(blacklist, token, token_type, t) ==
    IF is_token_blacklisted(blacklist, token) THEN "JWTError"
    ELSE IF jwt_decode(token, CoreKey, t) # "" THEN "JWTError"
    ELSE IF token.type # token_type THEN "JWTError"
    ELSE ""

\* utils/auth.py verify_token: the error it raises, "" when it returns the payload.
utils_verify_token(token, expected_type, t) ==
    IF jwt_decode(token, UtilsKey, t) # "" THEN "AuthenticationError"
    ELSE IF token.type # expected_type THEN "AuthenticationError"
    ELSE IF token.exp < t THEN "AuthenticationError"
    ELSE ""

\* services/auth.py login_user with credentials that are right or wrong: the pair it
\* returns, <<>> for None.
login_user(d, user_id, password_ok, t) ==
    IF user_id \notin d.users \/ ~password_ok THEN <<>>
    ELSE <<create_token_pair(user_id, t)>>

\* services/auth.py refresh_access_token: the new pair, <<>> for None.  The old refresh
\* token is left as it is (the blacklist_token call of step 4 is commented out).
refresh_access_token(d, blacklist, refresh_token, t) ==
    IF is_token_blacklisted(blacklist, refresh_token) THEN <<>>
    ELSE IF verify_token(blacklist, refresh_token, "refresh", t) # "" THEN <<>>
    ELSE IF refresh_token.user_id \notin d.users THEN <<>>
    ELSE <<create_token_pair(refresh_token.user_id, t)>>

\* services/auth.py logout_user: the blacklist afterwards; refresh_token is a sequence,
\* <<>> for None.
logout_user(blacklist, access_token, refresh_token) ==
    IF refresh_token = <<>> THEN blacklist_token(blacklist, access_token)
    ELSE blacklist_token(blacklist_token(blacklist, access_token), refresh_token[1])

\* services/auth.py get_token_info: the valid, expired and blacklisted fields.
get_token_info(blacklist, token, t) ==
    IF is_token_blacklisted(blacklist, token)
    THEN [valid |-> FALSE, expired |-> FALSE, blacklisted |-> TRUE]
    ELSE IF verify_token(blacklist, token, "access", t) # ""
    THEN [valid |-> FALSE, expired |-> FALSE, blacklisted |-> FALSE]
    ELSE [valid |-> token.exp - t > 0, expired |-> token.exp - t <= 0,
          blacklisted |-> FALSE]

\* services/user.py delete_user: a soft delete.
delete_user(d, user_id) ==
    IF user_id \notin d.users THEN Raise("UserNotFoundError")
    ELSE Return(<<[d EXCEPT !.users = @ \ {user_id},
                            !.deleted_users = @ \cup {user_id}]>>, NoId)

(***************************************************************************)
(* The token requests as steps of the process.                             *)
(***************************************************************************)
TokenUsers == {"uo"}

\* What a client can present: a token it was handed, or a string that is no token.
Presentable == issued \cup {Garbage}

NoTokenRequest == [op |-> "", result |-> "", token |-> Garbage, token_type |-> ""]

\* last keeps the operation, its outcome, the token presented and the type expected.
TokenRequest(op, result, token, token_type) ==
    last' = [op |-> op, result |-> result, token |-> token, token_type |-> token_type]

Tick ==
    /\ now < MaxTime
    /\ now' = now + 1
    /\ TokenRequest("tick", "", Garbage, "")
    /\ UNCHANGED <<db, next_id, blacklisted_tokens, issued, exchanged>>

PairTokens(pair) ==
    IF pair = <<>> THEN {} ELSE {pair[1].access_token, pair[1].refresh_token}

LoginUser ==
    \E user_id \in TokenUsers, password_ok \in BOOLEAN :
        LET pair == login_user(db, user_id, password_ok, now)
        IN  /\ Cardinality(issued \cup PairTokens(pair)) <= MaxTokens
            /\ issued' = issued \cup PairTokens(pair)
            /\ TokenRequest("login_user", IF pair = <<>> THEN "None" ELSE "ok",
                            Garbage, "")
            /\ UNCHANGED <<db, next_id, blacklisted_tokens, now, exchanged>>

RefreshAccessToken ==
    \E refresh_token \in Presentable :
        LET pair == refresh_access_token(db, blacklisted_tokens, refresh_token, now)
        IN  /\ Cardinality(issued \cup PairTokens(pair)) <= MaxTokens
            /\ issued' = issued \cup PairTokens(pair)
            /\ exchanged' = IF pair = <<>> THEN exchanged
                            ELSE exchanged \cup {refresh_token}
            /\ TokenRequest("refresh_access_token", IF pair = <<>> THEN "None" ELSE "ok",
                            refresh_token, "refresh")
            /\ UNCHANGED <<db, next_id, blacklisted_tokens, now>>

LogoutUser ==
    \E access_token \in issued, refresh_token \in {<<>>} \cup {<<r>> : r \in issued} :
        /\ blacklisted_tokens' = logout_user(blacklisted_tokens, access_token, refresh_token)
        /\ TokenRequest("logout_user", "ok", access_token, "")
        /\ UNCHANGED <<db, next_id, now, issued, exchanged>>

BlacklistToken ==
    \E token \in issued :
        /\ blacklisted_tokens' = blacklist_token(blacklisted_tokens, token)
        /\ TokenRequest("blacklist_token", "ok", token, "")
        /\ UNCHANGED <<db, next_id, now, issued, exchanged>>

VerifyToken ==
    \E token \in Presentable, token_type \in {"access", "refresh"} :
        /\ TokenRequest("verify_token",
                        verify_token(blacklisted_tokens, token, token_type, now),
                        token, token_type)
        /\ UNCHANGED <<db, next_id, auth_vars>>

\* utils/auth.py verifies a token its own create functions minted, when the process
\* started or just now.
UtilsVerifyToken ==
    \E user_id \in TokenUsers, minted_at \in {0, now}, expected_type \in {"access", "refresh"} :
        \E token \in {utils_create_access_token(user_id, minted_at),
                      utils_create_refresh_token(user_id, minted_at)} :
            /\ TokenRequest("utils_verify_token",
                            utils_verify_token(token, expected_type, now),
                            token, expected_type)
            /\ UNCHANGED <<db, next_id, auth_vars>>

GetTokenInfo ==
    \E token \in Presentable :
        /\ TokenRequest("get_token_info",
                        IF get_token_info(blacklisted_tokens, token, now).blacklisted
                        THEN "blacklisted"
                        ELSE IF get_token_info(blacklisted_tokens, token, now).valid
                        THEN "valid" ELSE "invalid",
                        token, "access")
        /\ UNCHANGED <<db, next_id, auth_vars>>

DeleteUser ==
    \E user_id \in TokenUsers :
        /\ db' = AfterRequest(db, delete_user(db, user_id))
        /\ TokenRequest("delete_user", delete_user(db, user_id).result, Garbage, "")
        /\ UNCHANGED <<next_id, auth_vars>>

InitTokens ==
    /\ db = EmptyDb
    /\ next_id = FirstIds
    /\ last = NoTokenRequest
    /\ NoTokens

NextTokens ==
    \/ Tick
    \/ LoginUser
    \/ RefreshAccessToken
    \/ LogoutUser
    \/ BlacklistToken
    \/ VerifyToken
    \/ UtilsVerifyToken
    \/ GetTokenInfo
    \/ DeleteUser

SpecTokens == InitTokens /\ [][NextTokens]_vars

(***************************************************************************)
(* Properties of the tokens.                                               *)
(***************************************************************************)
\* A refresh token that would be accepted if nobody had used it before.
UsableRefreshToken(token) ==
    /\ token \in issued
    /\ token.type = "refresh"
    /\ token.exp >= now
    /\ token.user_id \in db.users
    /\ token \notin blacklisted_tokens

\* C8: once a refresh presenting refresh token R has succeeded and returned a new
\* pair with refresh token R', every later refresh presenting R fails, and a refresh
\* presenting the new token succeeds.
SpentRefreshTokenIsRejected ==
    [][last'.op = "refresh_access_token"
       => /\ last'.token \in exchanged => last'.result = "None"
          /\ (UsableRefreshToken(last'.token) /\ last'.token \notin exchanged)
             => last'.result = "ok"
      ]_vars

\* The other of the two token types.
OtherType(token_type) == IF token_type = "access" THEN "refresh" ELSE "access"

\* C9: a blacklisted token stays blacklisted in every later state of the process;
\* verify_token fails on it whatever type is expected, even when the token is well
\* formed and unexpired; get_token_info reports it blacklisted; blacklisting it again
\* changes nothing.
BlacklistIsPermanent ==
    [][/\ blacklisted_tokens \subseteq blacklisted_tokens'
       /\ \A token \in blacklisted_tokens' :
             /\ \A token_type \in {"access", "refresh"} :
                   verify_token(blacklisted_tokens', token, token_type, now') # ""
             /\ get_token_info(blacklisted_tokens', token, now').blacklisted
             /\ blacklist_token(blacklisted_tokens', token) = blacklisted_tokens'
       /\ (last'.op = "verify_token" /\ last'.token \in blacklisted_tokens)
          => last'.result = "JWTError"
       /\ (last'.op = "get_token_info" /\ last'.token \in blacklisted_tokens)
          => last'.result = "blacklisted"
       /\ (last'.op = "blacklist_token" /\ last'.token \in blacklisted_tokens)
          => blacklisted_tokens' = blacklisted_tokens
      ]_vars

\* verify_token refused a blacklisted token that is well formed, of the expected type
\* and unexpired.
ValidTokenRefusedOnceBlacklisted ==
    /\ last.op = "verify_token" /\ last.result = "JWTError"
    /\ last.token \in blacklisted_tokens
    /\ verify_token({}, last.token, last.token_type, now) = ""

UtilsTokens ==
    UNION {{utils_create_access_token(user_id, minted_at),
            utils_create_refresh_token(user_id, minted_at)} :
              user_id \in TokenUsers, minted_at \in 0..MaxTime}

\* C10: in both token implementations a token minted as refresh fails verification as
\* access and a token minted as access fails verification as refresh, expired or not,
\* blacklisted or not; a refresh presenting an access token returns no token pair.
TokenTypesAreIsolated ==
    /\ \A token \in issued, t \in 0..MaxTime :
          /\ verify_token({}, token, OtherType(token.type), t) # ""
          /\ verify_token(blacklisted_tokens, token, OtherType(token.type), t) # ""
    /\ \A token \in UtilsTokens, t \in 0..MaxTime :
          utils_verify_token(token, OtherType(token.type), t) # ""
    /\ \A token \in issued :
          token.type = "access"
          => refresh_access_token(db, blacklisted_tokens, token, now) = <<>>
    /\ (/\ last.op \in {"verify_token", "utils_verify_token"}
        /\ last.token # Garbage
        /\ last.token.type # last.token_type)
       => last.result # ""
    /\ (last.op = "refresh_access_token" /\ last.token.type = "access")
       => last.result = "None"

\* A refresh presenting an access token that is unexpired and not blacklisted, of a
\* user that exists, returned no pair.
AccessTokenRefusedAsRefresh ==
    /\ last.op = "refresh_access_token" /\ last.result = "None"
    /\ last.token \in issued
    /\ last.token.type = "access"
    /\ verify_token(blacklisted_tokens, last.token, "access", now) = ""
    /\ last.token.user_id \in db.users

(***************************************************************************)
(* BrainstormSessionService.create_session and list_lab_sessions           *)
(* (services/brainstorm_session.py).  A session row is                     *)
(* [id, lab_id, deleted_at, status, session_data].                         *)
(***************************************************************************)
\* _user_has_lab_access: the owner of a live lab, or any user with a membership row.
user_has_lab_access(d, user_id, lab_id) ==
    /\ LabIsLive(d, lab_id)
    /\ \/ d.labs[lab_id].owner_id = user_id
       \/ MemberOf(d, lab_id, user_id) # {}

user_can_create_brainstorm(d, user_id, lab_id) ==
    LET user_role == get_user_lab_role(d, user_id, lab_id)
    IN  user_role # "" /\ can_perform(user_role, "create_brainstorm")

SessionsOfLab(d, lab_id) ==
    {s \in d.brainstorm_sessions : s.lab_id = lab_id /\ ~s.deleted_at}

\* A create_session that asks for lab access only.
create_session_for_any_member(d, new_id, current_user_id, lab_id) ==
    IF ~user_has_lab_access(d, current_user_id, lab_id)
    THEN Raise("AuthorizationError")
    ELSE Return(<<[d EXCEPT !.brainstorm_sessions = @ \cup
                     {[id |-> new_id, lab_id |-> lab_id, deleted_at |-> FALSE,
                       status |-> "active", session_data |-> NoSessionData]}]>>,
                new_id)

create_session(d, new_id, current_user_id, lab_id) ==
    IF ~user_can_create_brainstorm(d, current_user_id, lab_id)
    THEN Raise("AuthorizationError")
    ELSE Return(<<[d EXCEPT !.brainstorm_sessions = @ \cup
                     {[id |-> new_id, lab_id |-> lab_id, deleted_at |-> FALSE,
                       status |-> "active", session_data |-> NoSessionData]}]>>,
                new_id)

\* The value returned is the set of the ids listed.
list_lab_sessions(d, current_user_id, lab_id) ==
    IF ~user_has_lab_access(d, current_user_id, lab_id)
    THEN Raise("AuthorizationError")
    ELSE Return(<<>>, {s.id : s \in SessionsOfLab(d, lab_id)})

\* last keeps the operation and its outcome, the lab, the caller (target) and the role
\* the caller held in the lab when the request arrived.
SessionRequest(op, out, current_user_id, lab_id) ==
    /\ db' = AfterRequest(db, out)
    /\ next_id' = IF op = "create_session" /\ out.result = "ok"
                  THEN [next_id EXCEPT !.brainstorm_sessions = @ + 1] ELSE next_id
    /\ last' = [op |-> op, result |-> out.result, lab_id |-> lab_id,
                target |-> current_user_id,
                role_before |-> get_user_lab_role(db, current_user_id, lab_id),
                value |-> out.value, commits |-> out.commits]
    /\ UNCHANGED auth_vars

CreateSession ==
    /\ next_id.brainstorm_sessions <= MaxSessions
    /\ \E current_user_id \in Users, lab_id \in Labs :
          SessionRequest("create_session",
                         create_session(db, next_id.brainstorm_sessions,
                                        current_user_id, lab_id),
                         current_user_id, lab_id)

ListLabSessions ==
    \E current_user_id \in Users, lab_id \in Labs :
        SessionRequest("list_lab_sessions",
                       list_lab_sessions(db, current_user_id, lab_id),
                       current_user_id, lab_id)

InitSessions ==
    /\ db = EmptyDb
    /\ next_id = FirstIds
    /\ last = NoRequest
    /\ NoTokens

NextSessions ==
    \/ AddMember
    \/ UpdateMember
    \/ RemoveMember
    \/ CreateSession
    \/ ListLabSessions

SpecSessions == InitSessions /\ [][NextSessions]_vars

\* C11: a viewer member of a lab can list the lab's brainstorm sessions, but its
\* create_session raises AuthorizationError and creates nothing; once update_member
\* has set the member's role to admin, create_session by that user in that lab
\* succeeds and adds the session.
ViewerListsAndAdminCreates ==
    /\ \A lab_id \in Labs, user_id \in Users :
          (RoleOf(db, lab_id, user_id) = "viewer" /\ db.labs[lab_id].owner_id # user_id)
          => /\ list_lab_sessions(db, user_id, lab_id).result = "ok"
             /\ list_lab_sessions(db, user_id, lab_id).value
                   = {s.id : s \in SessionsOfLab(db, lab_id)}
             /\ create_session(db, next_id.brainstorm_sessions, user_id, lab_id)
                   = Raise("AuthorizationError")
    /\ (/\ last.op = "update_member" /\ last.result = "ok"
        /\ last.role = <<"admin">>)
       => LET out == create_session(db, next_id.brainstorm_sessions,
                                    last.target, last.lab_id)
          IN  /\ out.result = "ok"
              /\ \E s \in AfterRequest(db, out).brainstorm_sessions :
                    s.id = out.value /\ s.lab_id = last.lab_id /\ s \notin db.brainstorm_sessions
    /\ (last.op = "create_session" /\ last.role_before = "viewer")
       => last.result = "AuthorizationError" /\ last.commits = <<>>
    /\ (last.op = "create_session" /\ last.role_before = "admin")
       => /\ last.result = "ok"
          /\ \E s \in db.brainstorm_sessions : s.id = last.value /\ s.lab_id = last.lab_id
    /\ (last.op = "list_lab_sessions" /\ last.role_before = "viewer")
       => last.result = "ok"

\* uv, a viewer of L1 at first, created a session in L1 as an admin member, a session
\* of the lab being there already.
PromotedViewerCreatedSession ==
    /\ last.op = "create_session" /\ last.result = "ok"
    /\ last.target = "uv" /\ last.lab_id = "L1"
    /\ last.role_before = "admin"
    /\ Cardinality(SessionsOfLab(db, "L1")) = 2

(***************************************************************************)
(* Soft deletion of labs (services/lab.py) and users (services/user.py).   *)
(***************************************************************************)
\* LabService._user_has_lab_access: the owner or any user with a membership row; the
\* lab is looked up whether deleted or not.
lab_user_has_lab_access(d, user_id, lab_id) ==
    \/ d.labs[lab_id].owner_id = user_id
    \/ MemberOf(d, lab_id, user_id) # {}

\* A listing that leaves the deleted_at filter out.
get_user_labs_with_deleted(d, user_id) ==
    Return(<<>>, {l \in Labs : lab_user_has_lab_access(d, user_id, l)})

\* The value returned is the set of the labs listed.
get_user_labs(d, user_id) ==
    Return(<<>>, {l \in Labs : /\ ~d.labs[l].deleted_at
                              /\ \/ d.labs[l].owner_id = user_id
                                 \/ \E m \in d.lab_members :
                                       m.lab_id = l /\ m.user_id = user_id})

get_lab_by_id(d, user_id, lab_id) ==
    IF d.labs[lab_id].deleted_at THEN Raise("NotFoundError")
    ELSE IF ~lab_user_has_lab_access(d, user_id, lab_id) THEN Raise("AuthorizationError")
    ELSE Return(<<>>, lab_id)

\* request.name is <<>> for None; the other fields of the request change columns that
\* are not modelled.
update_lab(d, user_id, lab_id, request) ==
    IF d.labs[lab_id].deleted_at THEN Raise("NotFoundError")
    ELSE IF ~user_can_manage_lab(d, user_id, lab_id) THEN Raise("AuthorizationError")
    ELSE IF /\ request.name # <<>>
            /\ \E l \in Labs \ {lab_id} :
                  /\ d.labs[l].owner_id = d.labs[lab_id].owner_id
                  /\ d.labs[l].name = request.name[1]
                  /\ ~d.labs[l].deleted_at
         THEN Raise("ConflictError")
    ELSE Return(<<[d EXCEPT !.labs[lab_id].name =
                      IF request.name # <<>> THEN request.name[1] ELSE @]>>, lab_id)

delete_lab(d, user_id, lab_id) ==
    IF d.labs[lab_id].deleted_at THEN Raise("NotFoundError")
    ELSE IF d.labs[lab_id].owner_id # user_id THEN Raise("AuthorizationError")
    ELSE Return(<<[d EXCEPT !.labs[lab_id].deleted_at = TRUE]>>, NoId)

\* services/user.py get_user by id: the row found among the users not deleted.
get_user(d, user_id) ==
    IF user_id \notin d.users THEN Raise("UserNotFoundError") ELSE Return(<<>>, user_id)

\* services/user.py update_user: name, email and password are columns not modelled.
update_user(d, user_id) ==
    IF user_id \notin d.users THEN Raise("UserNotFoundError") ELSE Return(<<d>>, user_id)

\* last keeps the operation and its outcome, the caller, the lab or user row asked for
\* (target) and the value returned.
SoftDeleteRequest(op, out, caller, target) ==
    /\ db' = AfterRequest(db, out)
    /\ last' = [op |-> op, result |-> out.result, caller |-> caller, target |-> target,
                value |-> out.value, commits |-> out.commits]
    /\ UNCHANGED <<next_id, auth_vars>>

DeleteLab ==
    \E user_id \in Users, lab_id \in Labs :
        SoftDeleteRequest("delete_lab", delete_lab(db, user_id, lab_id), user_id, lab_id)

GetLabById ==
    \E user_id \in Users, lab_id \in Labs :
        SoftDeleteRequest("get_lab_by_id", get_lab_by_id(db, user_id, lab_id),
                          user_id, lab_id)

GetUserLabs ==
    \E user_id \in Users :
        SoftDeleteRequest("get_user_labs", get_user_labs(db, user_id), user_id, "")

UpdateLab ==
    \E user_id \in Users, lab_id \in Labs, name \in {<<>>, <<"a">>, <<"c">>} :
        SoftDeleteRequest("update_lab",
                          update_lab(db, user_id, lab_id, [name |-> name]),
                          user_id, lab_id)

SoftDeleteUser ==
    \E user_id \in Users :
        SoftDeleteRequest("delete_user", delete_user(db, user_id), "", user_id)

GetUser ==
    \E user_id \in Users :
        SoftDeleteRequest("get_user", get_user(db, user_id), "", user_id)

UpdateUser ==
    \E user_id \in Users :
        SoftDeleteRequest("update_user", update_user(db, user_id), "", user_id)

InitSoftDelete ==
    /\ db = EmptyDb
    /\ next_id = FirstIds
    /\ last = NoRequest
    /\ NoTokens

NextSoftDelete ==
    \/ DeleteLab
    \/ GetLabById
    \/ GetUserLabs
    \/ UpdateLab
    \/ RemoveMember
    \/ SoftDeleteUser
    \/ GetUser
    \/ UpdateUser

SpecSoftDelete == InitSoftDelete /\ [][NextSoftDelete]_vars

\* C12: a successful delete_lab or delete_user leaves the row in place with deleted_at
\* set; from then on no step clears deleted_at, get-by-id answers not-found for the row
\* and the lab listing omits it, whoever calls.
SoftDeletedRowsStayHidden ==
    [][/\ (last'.op = "delete_lab" /\ last'.result = "ok")
          => db'.labs[last'.target].deleted_at
       /\ (last'.op = "delete_user" /\ last'.result = "ok")
          => last'.target \in db'.deleted_users
       /\ \A l \in Labs :
             db.labs[l].deleted_at
             => /\ db'.labs[l].deleted_at
                /\ \A u \in Users :
                      /\ get_lab_by_id(db', u, l) = Raise("NotFoundError")
                      /\ l \notin get_user_labs(db', u).value
                /\ (last'.op \in {"get_lab_by_id", "update_lab", "delete_lab"}
                    /\ last'.target = l)
                   => last'.result = "NotFoundError" /\ last'.commits = <<>>
                /\ last'.op = "get_user_labs" => l \notin last'.value
       /\ \A u \in db.deleted_users :
             /\ u \in db'.deleted_users /\ u \notin db'.users
             /\ get_user(db', u) = Raise("UserNotFoundError")
             /\ (last'.op \in {"get_user", "update_user", "delete_user"}
                 /\ last'.target = u)
                => last'.result = "UserNotFoundError" /\ last'.commits = <<>>
      ]_vars

\* The owner listed its labs after deleting L1 and got L2 only, and uo, deleted
\* itself, is not found.
DeletedLabOmittedFromListing ==
    /\ last.op = "get_user_labs" /\ last.caller = "uo"
    /\ db.labs["L1"].deleted_at
    /\ last.value = {"L2"}
    /\ "uo" \in db.deleted_users
    /\ get_user(db, "uo").result = "UserNotFoundError"

(***************************************************************************)
(* ApiKeyService (services/api_key.py).  An API key row is                 *)
(* [id, user_id, key_hash, is_active, revoked_at, expires_at,              *)
(* last_used_at]; revoked_at is FALSE for null, expires_at and             *)
(* last_used_at are NoId for null, else a time.  An optional field of an   *)
(* update request is a sequence, <<>> for None and <<v>> for v.            *)
(***************************************************************************)
MaxApiKeys == 2

\* generate_api_key: the plaintext handed out with the row of each id, and a string
\* that was never handed out.
GeneratedKeys == [i \in 1..MaxApiKeys |-> <<"key", i>>]

PresentableKeys == {GeneratedKeys[i] : i \in 1..MaxApiKeys} \cup {<<"key", 0>>}

\* hash_api_key: SHA-256, taken to be free of collisions.
hash_api_key(key) == <<"sha256", key>>

ApiKeyUsers == {"uo", "ua"}

\* The row of that id, of that user, that is not revoked.
ApiKeyOfUser(d, user_id, api_key_id) ==
    {k \in d.api_keys : k.id = api_key_id /\ k.user_id = user_id /\ ~k.revoked_at}

create_api_key(d, new_id, user_id, request) ==
    Return(<<[d EXCEPT !.api_keys = @ \cup
                {[id |-> new_id, user_id |-> user_id,
                  key_hash |-> hash_api_key(GeneratedKeys[new_id]),
                  is_active |-> TRUE, revoked_at |-> FALSE,
                  expires_at |-> request.expires_at, last_used_at |-> NoId]}]>>,
           GeneratedKeys[new_id])

\* An update that looks the row up by id and user only.
update_api_key_of_any_row(d, user_id, api_key_id, request) ==
    LET rows == {k \in d.api_keys : k.id = api_key_id /\ k.user_id = user_id}
    IN  IF rows = {} THEN Raise("NotFoundError")
        ELSE LET api_key == CHOOSE k \in rows : TRUE
                 updated == [api_key EXCEPT
                               !.is_active = IF request.is_active # <<>>
                                             THEN request.is_active[1] ELSE @,
                               !.expires_at = IF request.expires_at # <<>>
                                              THEN request.expires_at[1] ELSE @]
             IN  Return(<<[d EXCEPT !.api_keys = (@ \ {api_key}) \cup {updated}]>>,
                        api_key_id)

update_api_key(d, user_id, api_key_id, request) ==
    IF ApiKeyOfUser(d, user_id, api_key_id) = {} THEN Raise("NotFoundError")
    ELSE LET api_key == CHOOSE k \in ApiKeyOfUser(d, user_id, api_key_id) : TRUE
             updated == [api_key EXCEPT
                           !.is_active = IF request.is_active # <<>>
                                         THEN request.is_active[1] ELSE @,
                           !.expires_at = IF request.expires_at # <<>>
                                          THEN request.expires_at[1] ELSE @]
         IN  Return(<<[d EXCEPT !.api_keys = (@ \ {api_key}) \cup {updated}]>>,
                    api_key_id)

revoke_api_key(d, user_id, api_key_id) ==
    IF ApiKeyOfUser(d, user_id, api_key_id) = {} THEN Raise("NotFoundError")
    ELSE LET api_key == CHOOSE k \in ApiKeyOfUser(d, user_id, api_key_id) : TRUE
         IN  Return(<<[d EXCEPT !.api_keys = (@ \ {api_key}) \cup
                          {[api_key EXCEPT !.is_active = FALSE, !.revoked_at = TRUE]}]>>,
                    NoId)

\* The value returned is the id of the row matched, NoId for None; a match stamps
\* last_used_at and commits.
verify_api_key(d, key, t) ==
    LET rows == {k \in d.api_keys :
                    /\ k.key_hash = hash_api_key(key)
                    /\ k.is_active
                    /\ ~k.revoked_at
                    /\ (k.expires_at = NoId \/ k.expires_at > t)}
    IN  IF rows = {} THEN Return(<<>>, NoId)
        ELSE LET api_key == CHOOSE k \in rows : TRUE
             IN  Return(<<[d EXCEPT !.api_keys = (@ \ {api_key}) \cup
                              {[api_key EXCEPT !.last_used_at = t]}]>>, api_key.id)

get_api_key_by_id(d, user_id, api_key_id) ==
    IF ApiKeyOfUser(d, user_id, api_key_id) = {} THEN Raise("NotFoundError")
    ELSE Return(<<>>, api_key_id)

\* The value returned is the set of the ids listed.
get_user_api_keys(d, user_id) ==
    Return(<<>>, {k.id : k \in {r \in d.api_keys : r.user_id = user_id /\ ~r.revoked_at}})

ApiKeyIds == 1..MaxApiKeys

NoApiKeyRequest ==
    [op |-> "", result |-> "", target |-> NoId, revoked_before |-> FALSE,
     revoked |-> {}, value |-> NoId, commits |-> <<>>]

\* last keeps the operation and its outcome, the row asked for (target, NoId when the
\* request names none), whether that row was revoked when the request arrived, the
\* ids of the keys a revoke_api_key has succeeded for so far, and the value returned.
ApiKeyRequest(op, out, target) ==
    /\ db' = AfterRequest(db, out)
    /\ next_id' = IF op = "create_api_key"
                  THEN [next_id EXCEPT !.api_keys = @ + 1] ELSE next_id
    /\ last' = [op |-> op, result |-> out.result, target |-> target,
                revoked_before |-> \E k \in db.api_keys : k.id = target /\ k.revoked_at,
                revoked |-> IF op = "revoke_api_key" /\ out.result = "ok"
                            THEN last.revoked \cup {target} ELSE last.revoked,
                value |-> out.value, commits |-> out.commits]
    /\ UNCHANGED auth_vars

\* The clock of the API key requests.
ApiKeyTick ==
    /\ now < MaxTime
    /\ now' = now + 1
    /\ last' = [NoApiKeyRequest EXCEPT !.op = "tick", !.revoked = last.revoked]
    /\ UNCHANGED <<db, next_id, blacklisted_tokens, issued, exchanged>>

CreateApiKey ==
    /\ next_id.api_keys <= MaxApiKeys
    /\ \E user_id \in ApiKeyUsers, expires_at \in {NoId, 2} :
          ApiKeyRequest("create_api_key",
                        create_api_key(db, next_id.api_keys, user_id,
                                       [expires_at |-> expires_at]),
                        next_id.api_keys)

UpdateApiKey ==
    \E user_id \in ApiKeyUsers, api_key_id \in ApiKeyIds,
       is_active \in {<<>>, <<TRUE>>, <<FALSE>>}, expires_at \in {<<>>, <<MaxTime>>} :
        ApiKeyRequest("update_api_key",
                      update_api_key(db, user_id, api_key_id,
                                     [is_active |-> is_active, expires_at |-> expires_at]),
                      api_key_id)

RevokeApiKey ==
    \E user_id \in ApiKeyUsers, api_key_id \in ApiKeyIds :
        ApiKeyRequest("revoke_api_key", revoke_api_key(db, user_id, api_key_id),
                      api_key_id)

\* target is the id of the row the key presented was generated for.
VerifyApiKey ==
    \E i \in 0..MaxApiKeys :
        ApiKeyRequest("verify_api_key", verify_api_key(db, <<"key", i>>, now), i)

GetApiKeyById ==
    \E user_id \in ApiKeyUsers, api_key_id \in ApiKeyIds :
        ApiKeyRequest("get_api_key_by_id", get_api_key_by_id(db, user_id, api_key_id),
                      api_key_id)

GetUserApiKeys ==
    \E user_id \in ApiKeyUsers :
        ApiKeyRequest("get_user_api_keys", get_user_api_keys(db, user_id), NoId)

InitApiKeys ==
    /\ db = EmptyDb
    /\ next_id = FirstIds
    /\ last = NoApiKeyRequest
    /\ NoTokens

NextApiKeys ==
    \/ ApiKeyTick
    \/ CreateApiKey
    \/ UpdateApiKey
    \/ RevokeApiKey
    \/ VerifyApiKey
    \/ GetApiKeyById
    \/ GetUserApiKeys

SpecApiKeys == InitApiKeys /\ [][NextApiKeys]_vars

\* C13: once revoke_api_key has succeeded for a key, in every later state the row is
\* there, revoked and inactive; verify_api_key with the key's plaintext matches
\* nothing; update, get-by-id and a second revoke of the key raise NotFoundError for
\* every user and every request, so no update makes the key verify again.
RevokedKeyStaysRevoked ==
    /\ \A api_key_id \in last.revoked :
          /\ \E k \in db.api_keys : k.id = api_key_id /\ k.revoked_at /\ ~k.is_active
          /\ verify_api_key(db, GeneratedKeys[api_key_id], now) = Return(<<>>, NoId)
          /\ \A user_id \in ApiKeyUsers :
                /\ get_api_key_by_id(db, user_id, api_key_id) = Raise("NotFoundError")
                /\ revoke_api_key(db, user_id, api_key_id) = Raise("NotFoundError")
                /\ \A is_active \in {<<>>, <<TRUE>>, <<FALSE>>},
                      expires_at \in {<<>>, <<MaxTime>>} :
                      update_api_key(db, user_id, api_key_id,
                                     [is_active |-> is_active,
                                      expires_at |-> expires_at])
                         = Raise("NotFoundError")
    /\ (/\ last.op \in {"update_api_key", "get_api_key_by_id", "revoke_api_key"}
        /\ last.revoked_before)
       => last.result = "NotFoundError" /\ last.commits = <<>>
    /\ (last.op = "verify_api_key" /\ last.revoked_before)
       => last.value = NoId /\ last.commits = <<>>

\* An update that asks to activate a revoked key again, the key unexpired, was
\* answered NotFoundError.
ReactivationOfRevokedKeyRefused ==
    /\ last.op = "update_api_key" /\ last.revoked_before
    /\ last.target \in last.revoked
    /\ last.result = "NotFoundError"
    /\ \E k \in db.api_keys :
          /\ k.id = last.target /\ k.revoked_at
          /\ k.expires_at = NoId
          /\ k.last_used_at # NoId

(***************************************************************************)
(* The bulk requests of ResearchKeywordService on sessions that hold       *)
(* keywords already: bulk_delete_keywords, and bulk_create_keywords over   *)
(* a range of weights.  A weight is a whole number of steps of             *)
(* 1 / MaxWeight on the scale from 0 to 1.                                 *)
(***************************************************************************)
MaxWeight == 2
MaxIds == 3

Range(s) == {s[i] : i \in 1..Len(s)}

\* BulkKeywordDelete.ids: a list of one id or more; the ids 1..3 may name rows.
IdLists == UNION {[1..n -> 1..3] : n \in 1..MaxIds}

\* The value returned is the BulkOperationResult, its deleted and not_found counts.
bulk_delete_keywords(d, current_user_id, session_id, request) ==
    LET err == session_permission_error(d, current_user_id, session_id, "create_brainstorm")
        keywords == {k \in d.research_keywords :
                        k.session_id = session_id /\ k.id \in Range(request.ids)}
        found_ids == {kw.id : kw \in keywords}
    IN  IF err # "" THEN Raise(err)
        ELSE Return(<<[d EXCEPT !.research_keywords = @ \ keywords]>>,
                    [deleted |-> Cardinality(keywords),
                     not_found |-> Len(request.ids) - Cardinality(found_ids)])

BulkWeights == {<<>>} \cup {<<w>> : w \in 0..MaxWeight}

MergeItems == [term : Terms, weight : BulkWeights]

MergeItemLists == UNION {[1..n -> MergeItems] : n \in 1..MaxItems}

\* The stores the bulk requests start from: two sessions of lab L1; session 1 may hold
\* keyword 1 (ai, of any weight) and keyword 2 (ml), session 2 may hold keyword 3 (ai).
BulkStores ==
    {[EmptyDb EXCEPT
        !.brainstorm_sessions =
            {[id |-> i, lab_id |-> "L1", deleted_at |-> FALSE, status |-> "active",
              session_data |-> NoSessionData] : i \in {1, 2}},
        !.research_keywords = k1 \cup k2 \cup k3] :
       k1 \in {{}} \cup {{[id |-> 1, session_id |-> 1, term |-> "ai", weight |-> w]} :
                           w \in BulkWeights},
       k2 \in {{}, {[id |-> 2, session_id |-> 1, term |-> "ml", weight |-> <<1>>]}},
       k3 \in {{}, {[id |-> 3, session_id |-> 2, term |-> "ai", weight |-> <<1>>]}}}

BulkUsers == {"uo", "uv"}

\* last keeps the operation and its outcome, the session, the ids or the items and
\* the mode sent, all the keyword rows there were before the request, and the value
\* returned; of a request that was refused it keeps the operation and the outcome.
\* Each behaviour applies one bulk request to one of the stores.
BulkRequest(op, out, session_id, ids, items, mode) ==
    /\ last = NoRequest
    /\ db' = AfterRequest(db, out)
    /\ next_id' = [next_id EXCEPT
                     !.research_keywords =
                         @ + Cardinality({k \in AfterRequest(db, out).research_keywords :
                                            k.id >= @})]
    /\ last' = IF out.result # "ok"
               THEN [op |-> op, result |-> out.result, value |-> NoId, session_id |-> NoId,
                     ids |-> <<>>, items |-> <<>>, mode |-> "", rows_before |-> {},
                     commits |-> out.commits]
               ELSE [op |-> op, result |-> out.result, value |-> out.value,
                     session_id |-> session_id, ids |-> ids, items |-> items,
                     mode |-> mode, rows_before |-> db.research_keywords,
                     commits |-> out.commits]
    /\ UNCHANGED auth_vars

BulkDeleteKeywords ==
    \E current_user_id \in BulkUsers, session_id \in SessionIds, ids \in IdLists :
        BulkRequest("bulk_delete_keywords",
                    bulk_delete_keywords(db, current_user_id, session_id, [ids |-> ids]),
                    session_id, ids, <<>>, "")

BulkMergeKeywords ==
    \E current_user_id \in BulkUsers, session_id \in SessionIds,
       items \in MergeItemLists, mode \in {"merge", "upsert"} :
        LET out == bulk_create_keywords(db, next_id.research_keywords, current_user_id,
                                        session_id, [items |-> items, mode |-> mode])
        IN  BulkRequest("bulk_create_keywords", out, session_id, <<>>, items, mode)

InitBulk ==
    /\ db \in BulkStores
    /\ next_id = [FirstIds EXCEPT !.brainstorm_sessions = 3, !.research_keywords = 4]
    /\ last = NoRequest
    /\ NoTokens

NextBulk ==
    \/ BulkDeleteKeywords
    \/ BulkMergeKeywords

SpecBulk == InitBulk /\ [][NextBulk]_vars

\* C14: the result of a bulk_delete_keywords request counts as deleted the requested
\* ids that exist in the session and as not_found the requested ids that do not;
\* exactly the existing requested rows are removed, and every other keyword row, of
\* that session or another, is left as it was.
BulkDeleteCountsAndRemoves ==
    (last.op = "bulk_delete_keywords" /\ last.result = "ok")
    => LET requested == Range(last.ids)
           present == {k \in last.rows_before :
                          k.session_id = last.session_id /\ k.id \in requested}
           absent == {id \in requested : \A k \in present : k.id # id}
       IN  /\ last.value.deleted = Cardinality(present)
           /\ last.value.not_found = Cardinality(absent)
           /\ db.research_keywords = last.rows_before \ present

\* C15: a merge of bulk_create_keywords leaves on a row that was there the higher of
\* the weight it had and the weights sent for its term, whatever the weights are
\* between 0 and 1, and never lowers the weight of a row of the session.
MergeKeepsHigherWeight ==
    (last.op = "bulk_create_keywords" /\ last.result = "ok" /\ last.mode = "merge")
    => \A k \in last.rows_before :
          k.session_id = last.session_id
          => LET incoming == {last.items[i].weight[1] :
                                i \in {n \in 1..Len(last.items) :
                                          /\ lower(last.items[n].term) = k.term
                                          /\ last.items[n].weight # <<>>}}
             IN  \E after \in db.research_keywords :
                    /\ after.id = k.id
                    /\ (k.weight # <<>> /\ incoming # {})
                       => after.weight = <<SetMax({k.weight[1]} \cup incoming)>>
                    /\ k.weight # <<>>
                       => (after.weight # <<>> /\ after.weight[1] >= k.weight[1])
                    /\ incoming = {} => after.weight = k.weight

\* A merge sent, for the term of a row of the highest weight, a weight that is lower
\* and not 0, and the row is as it was.
MergeWithLowerWeightKeptExisting ==
    /\ last.op = "bulk_create_keywords" /\ last.result = "ok" /\ last.mode = "merge"
    /\ \E k \in last.rows_before :
          /\ k.session_id = last.session_id /\ k.weight = <<MaxWeight>>
          /\ \E i \in 1..Len(last.items) :
                /\ lower(last.items[i].term) = k.term
                /\ last.items[i].weight # <<>> /\ last.items[i].weight[1] \in 1..(MaxWeight - 1)
          /\ k \in db.research_keywords

(***************************************************************************)
(* Activation requests served at the same time.  Each request runs in a    *)
(* transaction of its own (db/session.py: one Session per request, the     *)
(* engine's default isolation, READ COMMITTED), so the statements of       *)
(* activate_schema and activate_connection are steps that interleave:      *)
(* the reads, the bulk UPDATE that clears is_active, which works on the    *)
(* rows its snapshot saw active, waits for rows another transaction has    *)
(* written and skips those that are no longer active, and the flush and    *)
(* commit that set the target's flag and the lab's pointer.                *)
(* db.transactions holds the open transactions of the database.            *)
(***************************************************************************)
MaxRequests == 2

Requests == 1..MaxRequests

ActivationTables == {"kg_schemas", "neo4j_connections"}

PointerOf == [kg_schemas |-> "active_schema_id", neo4j_connections |-> "active_connection_id"]

NoTransaction ==
    [pc |-> "idle", table |-> "", lab_id |-> "", target |-> NoId, pointer_loaded |-> NoId,
     matched |-> {}, updated |-> {}]

\* A bulk UPDATE that matches no row.
rows_without_filter(d, table, lab_id) == {}

\* The ids of the rows filter(lab_id == lab_id, is_active == True) selects.
active_rows(d, table, lab_id) ==
    {x.id : x \in {y \in d[table] : y.lab_id = lab_id /\ y.is_active}}

\* The checks the two methods make before they write anything.
activation_checks(d, table, user_id, lab_id, target) ==
    IF table = "kg_schemas" THEN activate_schema(d, user_id, lab_id, target).result
    ELSE activate_connection(d, user_id, lab_id, target).result

\* The rows of the table that transactions other than r have written and not committed.
locked_by_others(d, r, table) ==
    UNION {d.transactions[q].updated :
             q \in {o \in Requests \ {r} : d.transactions[o].table = table}}

\* commit: the flush writes the rows the bulk UPDATE cleared, then is_active of the
\* target, and active_* of the lab when the value differs from the one loaded.
committed(d, r) ==
    LET tx == d.transactions[r]
        cleared == [d EXCEPT ![tx.table] =
                       {IF x.id \in tx.updated THEN [x EXCEPT !.is_active = FALSE] ELSE x
                          : x \in @}]
        flagged == [cleared EXCEPT ![tx.table] =
                       {IF x.id = tx.target THEN [x EXCEPT !.is_active = TRUE] ELSE x
                          : x \in @}]
    IN  [flagged EXCEPT
           !.labs[tx.lab_id] = IF tx.pointer_loaded = tx.target THEN @
                               ELSE [@ EXCEPT ![PointerOf[tx.table]] = tx.target],
           !.transactions[r] = NoTransaction]

\* last keeps the step, the outcome of the checks, and the tables on which a
\* transaction was opened while another one on the same lab was open.
BeginActivation ==
    \E r \in Requests, table \in ActivationTables, user_id \in {"uo", "uv"},
       lab_id \in Labs, target \in SchemaIds \cup ConnectionIds :
        LET result == activation_checks(db, table, user_id, lab_id, target)
            others == {q \in Requests \ {r} :
                          /\ db.transactions[q].table = table
                          /\ db.transactions[q].lab_id = lab_id}
        IN  /\ db.transactions[r].pc = "idle"
            /\ db' = IF result # "ok" THEN db
                     ELSE [db EXCEPT !.transactions[r] =
                              [NoTransaction EXCEPT
                                 !.pc = "loaded", !.table = table, !.lab_id = lab_id,
                                 !.target = target,
                                 !.pointer_loaded = db.labs[lab_id][PointerOf[table]]]]
            /\ last' = [op |-> "begin", result |-> result,
                        overlapped |-> IF result = "ok" /\ others # {}
                                       THEN last.overlapped \cup {table}
                                       ELSE last.overlapped]
            /\ UNCHANGED <<next_id, auth_vars>>

ScanActiveRows ==
    \E r \in Requests :
        /\ db.transactions[r].pc = "loaded"
        /\ db' = [db EXCEPT !.transactions[r].pc = "scanned",
                            !.transactions[r].matched =
                                active_rows(db, db.transactions[r].table,
                                            db.transactions[r].lab_id)]
        /\ last' = [last EXCEPT !.op = "scan", !.result = "ok"]
        /\ UNCHANGED <<next_id, auth_vars>>

DeactivateOthers ==
    \E r \in Requests :
        LET tx == db.transactions[r]
        IN  /\ tx.pc = "scanned"
            /\ tx.matched \cap locked_by_others(db, r, tx.table) = {}
            /\ db' = [db EXCEPT !.transactions[r].pc = "updated",
                                !.transactions[r].updated =
                                    tx.matched \cap active_rows(db, tx.table, tx.lab_id)]
            /\ last' = [last EXCEPT !.op = "update", !.result = "ok"]
            /\ UNCHANGED <<next_id, auth_vars>>

CommitActivation ==
    \E r \in Requests :
        LET tx == db.transactions[r]
        IN  /\ tx.pc = "updated"
            /\ tx.target \notin locked_by_others(db, r, tx.table)
            /\ db' = committed(db, r)
            /\ last' = [last EXCEPT !.op = "commit", !.result = "ok"]
            /\ UNCHANGED <<next_id, auth_vars>>

\* Lab L1 holds two schemas and two connections; of each, none is active or the first
\* one is, and then the lab's pointer names it.
RaceStores ==
    {[kg_schemas |->
        {[id |-> 1, lab_id |-> "L1", version |-> 1, is_active |-> s],
         [id |-> 2, lab_id |-> "L1", version |-> 2, is_active |-> FALSE]},
      neo4j_connections |->
        {[id |-> 1, lab_id |-> "L1", connection_name |-> "n1", secret_id |-> "s1",
          schema_id |-> 1, is_active |-> c],
         [id |-> 2, lab_id |-> "L1", connection_name |-> "n2", secret_id |-> "s1",
          schema_id |-> 1, is_active |-> FALSE]},
      labs |-> [EmptyDb.labs EXCEPT
                  !["L1"].active_schema_id = IF s THEN 1 ELSE NoId,
                  !["L1"].active_connection_id = IF c THEN 1 ELSE NoId],
      lab_members |-> EmptyDb.lab_members,
      processing_jobs |-> {}, brainstorm_sessions |-> {}, research_keywords |-> {},
      api_keys |-> {}, users |-> Users, deleted_users |-> {},
      transactions |-> [r \in Requests |-> NoTransaction]] : s \in BOOLEAN, c \in BOOLEAN}

InitRace ==
    /\ db \in RaceStores
    /\ next_id = [FirstIds EXCEPT !.kg_schemas = 3, !.neo4j_connections = 3]
    /\ last = [op |-> "", result |-> "", overlapped |-> {}]
    /\ NoTokens

NextRace ==
    \/ BeginActivation
    \/ ScanActiveRows
    \/ DeactivateOthers
    \/ CommitActivation

SpecRace == InitRace /\ [][NextRace]_vars

\* The lab has at most one active row of the table, and its pointer, when set, names
\* an active row.
OneActiveNamedByPointer(d, table, lab_id) ==
    /\ Cardinality(active_rows(d, table, lab_id)) <= 1
    /\ d.labs[lab_id][PointerOf[table]] \in active_rows(d, table, lab_id) \cup {NoId}

\* C16: activation is not protected against concurrent requests: as long as the
\* activations of a table were served one after another the lab has at most one
\* active row and its pointer names it, and two activations of different targets that
\* overlap can commit and leave two active rows or a pointer to an inactive row.
OnlyOverlappingActivationsBreakTheLab ==
    \A table \in ActivationTables \ last.overlapped :
        \A lab_id \in Labs : OneActiveNamedByPointer(db, table, lab_id)

\* Two activate_schema requests overlapped, both have committed, and lab L1 has two
\* active schemas.
RaceLeftTwoActiveSchemas ==
    /\ "kg_schemas" \in last.overlapped
    /\ \A r \in Requests : db.transactions[r].pc = "idle"
    /\ Cardinality(active_rows(db, "kg_schemas", "L1")) = 2

(***************************************************************************)
(* Activation while a migration job is pending.                            *)
(***************************************************************************)
ActivationPaths == {"activate_schema", "create_schema", "lab_activate_schema"}

\* C17: while a schema_migrate job of a lab is queued or running, activate_schema does
\* not succeed for that lab, and no activation path (activate_schema, create_schema
\* with is_active = true, LabService.activate_schema) changes the lab's active schema:
\* neither the rows whose is_active is set nor Lab.active_schema_id.
MigrationBlocksActivation ==
    [][\A lab_id \in Labs :
          (running_migration_jobs(db, lab_id) # {} /\ last'.op \in ActivationPaths)
          => /\ ActiveSchemaIds(db', lab_id) = ActiveSchemaIds(db, lab_id)
             /\ db'.labs[lab_id].active_schema_id = db.labs[lab_id].active_schema_id
             /\ (last'.op = "activate_schema" /\ last'.lab_id = lab_id)
                => last'.result # "ok"]_vars

(***************************************************************************)
(* Deletion of schemas and connections, from the store of the connection   *)
(* requests: every way the flags and the lab's pointers are set, and the   *)
(* two deletions.                                                          *)
(***************************************************************************)
NextDeletes ==
    \/ CreateConnection
    \/ ActivateSchema
    \/ ActivateConnection
    \/ LabActivateSchema
    \/ LabActivateConnection
    \/ DeleteSchema
    \/ DeleteConnection

SpecDeletes == InitConnections /\ [][NextDeletes]_vars

\* The users delete_schema and delete_connection let through: the lab's admins.
AdminsOfLab(d, lab_id) == {u \in Users : is_admin_role(get_user_role_in_lab(d, u, lab_id))}

\* C18: for an admin of the lab, delete_schema without force raises ConflictError and
\* deletes nothing when the schema is the lab's active schema (is_active is set and
\* Lab.active_schema_id names it) or a connection references it; delete_schema with
\* force on the lab's active schema deletes it and leaves Lab.active_schema_id null.
DeleteSchemaGuardsTheActiveSchema ==
    \A schema \in db.kg_schemas : \A user_id \in AdminsOfLab(db, schema.lab_id) :
        LET labs_active == /\ schema.is_active
                           /\ db.labs[schema.lab_id].active_schema_id = schema.id
            referenced == \E c \in db.neo4j_connections : c.schema_id = schema.id
            refused == delete_schema(db, user_id, schema.id, FALSE)
            forced == delete_schema(db, user_id, schema.id, TRUE)
        IN  /\ (labs_active \/ referenced)
               => (refused.result = "ConflictError" /\ AfterRequest(db, refused) = db)
            /\ labs_active
               => /\ forced.result = "ok"
                  /\ SchemaById(AfterRequest(db, forced), schema.id) = {}
                  /\ AfterRequest(db, forced).labs[schema.lab_id].active_schema_id = NoId

\* C19: for an admin of the lab, delete_connection without force raises ConflictError
\* and deletes nothing whenever the connection is the one Lab.active_connection_id
\* refers to; delete_connection with force on that connection deletes it and leaves
\* Lab.active_connection_id null.
DeleteConnectionGuardsThePointer ==
    \A connection \in db.neo4j_connections :
        \A user_id \in AdminsOfLab(db, connection.lab_id) :
            LET refused == delete_connection(db, user_id, connection.id, FALSE)
                forced == delete_connection(db, user_id, connection.id, TRUE)
            IN  db.labs[connection.lab_id].active_connection_id = connection.id
                => /\ refused.result = "ConflictError"
                   /\ AfterRequest(db, refused) = db
                   /\ forced.result = "ok"
                   /\ ConnectionById(AfterRequest(db, forced), connection.id) = {}
                   /\ AfterRequest(db, forced).labs[connection.lab_id].active_connection_id
                         = NoId

(***************************************************************************)
(* The membership requests and the owner of the lab.                       *)
(***************************************************************************)
\* C20: update_member that changes the role of the lab's owner and remove_member that
\* targets the lab's owner are rejected and change nothing, and no membership row
\* has the role owner, so that the lab's only owner is the one Lab.owner_id names.
OwnerMembershipIsProtected ==
    /\ (/\ \/ last.op = "remove_member"
           \/ last.op = "update_member" /\ last.role # <<>>
        /\ last.target = db.labs[last.lab_id].owner_id)
       => (last.result # "ok" /\ last.commits = <<>>)
    /\ \A m \in db.lab_members : m.role # "owner"

(***************************************************************************)
(* The permission helpers of utils/permissions.py, asked about every role  *)
(* of the membership enum and the roles of the earlier migration.          *)
(***************************************************************************)
RoleNames == {"owner", "admin", "editor", "member", "viewer"}

\* The twelve capabilities and a name that no row of the table holds.
PermissionNames == Capabilities \cup {"export_data"}

can_manage_members(role) == can_perform(role, "manage_members")

can_manage_lab(role) == can_perform(role, "manage_lab") \/ can_perform(role, "manage_settings")

can_delete_lab(role) == can_perform(role, "delete_lab")

can_delete_data(role) == can_perform(role, "delete_data")

ROLE_HIERARCHY == [owner |-> 3, admin |-> 2, viewer |-> 1]

get_role_level(role) == IF role \in DOMAIN ROLE_HIERARCHY THEN ROLE_HIERARCHY[role] ELSE 0

can_manage_role(current_role, target_role) ==
    IF current_role = "owner" THEN target_role # "owner"
    ELSE IF current_role = "admin" THEN target_role \in {"viewer"}
    ELSE FALSE

\* last keeps the helper asked, its arguments and its answer.
Asked(op, role, permission, value) ==
    /\ last' = [op |-> op, role |-> role, permission |-> permission, value |-> value]
    /\ UNCHANGED <<db, next_id, auth_vars>>

CanPerform ==
    \E role \in RoleNames, permission \in PermissionNames :
        Asked("can_perform", role, permission, can_perform(role, permission))

RolePredicate ==
    \E role \in RoleNames :
        \/ Asked("can_manage_members", role, "", can_manage_members(role))
        \/ Asked("can_manage_lab", role, "", can_manage_lab(role))
        \/ Asked("can_delete_lab", role, "", can_delete_lab(role))
        \/ Asked("can_run_jobs", role, "", can_run_jobs(role))
        \/ Asked("can_manage_schemas", role, "", can_manage_schemas(role))
        \/ Asked("can_delete_data", role, "", can_delete_data(role))
        \/ Asked("is_admin_role", role, "", is_admin_role(role))

GetRoleLevel ==
    \E role \in RoleNames : Asked("get_role_level", role, "", get_role_level(role))

CanManageRole ==
    \E current_role \in RoleNames, target_role \in RoleNames :
        Asked("can_manage_role", current_role, target_role,
              can_manage_role(current_role, target_role))

InitPermissions ==
    /\ db = EmptyDb
    /\ next_id = FirstIds
    /\ last = [op |-> "", role |-> "", permission |-> "", value |-> FALSE]
    /\ NoTokens

NextPermissions ==
    \/ CanPerform
    \/ RolePredicate
    \/ GetRoleLevel
    \/ CanManageRole

SpecPermissions == InitPermissions /\ [][NextPermissions]_vars

\* C21: can_perform answers as the capability table is described: owner holds each of
\* the twelve capabilities, admin each of them except delete_lab and
\* transfer_ownership, viewer exactly view_data and participate_conversations, and a
\* role without a row (editor, member) none.
CapabilityTableAsDescribed ==
    (last.op = "can_perform" /\ last.permission \in Capabilities)
    => last.value =
          CASE last.role = "owner" -> TRUE
            [] last.role = "admin" ->
                  last.permission \notin {"delete_lab", "transfer_ownership"}
            [] last.role = "viewer" ->
                  last.permission \in {"view_data", "participate_conversations"}
            [] OTHER -> FALSE

(***************************************************************************)
(* The commits of one request.                                             *)
(***************************************************************************)
\* C22: a service method commits at most once, at its end, so that no state it
\* commits holds only some of its writes: no state committed by create_schema with
\* is_active = true has the new schema active while Lab.active_schema_id names
\* another schema or none.
EveryMethodCommitsOnce ==
    /\ Len(last.commits) <= 1
    /\ (last.op = "create_schema" /\ last.result = "ok")
       => \A i \in 1..Len(last.commits) :
             \A s \in SchemaById(last.commits[i], last.target) :
                s.is_active => last.commits[i].labs[last.lab_id].active_schema_id = s.id

(***************************************************************************)
(* The lifecycle of a session (services/brainstorm_session.py): its status *)
(* and its session_data, of which the conversation and the finalized flag  *)
(* are kept.  A turn stands for its {speaker, content, timestamp} record.  *)
(***************************************************************************)
MaxTurns == 2

Statuses == {"active", "completed", "archived"}

Turns == {"t1", "t2"}

ReplaceSession(d, old, new) ==
    [d EXCEPT !.brainstorm_sessions = (@ \ {old}) \cup {new}]

update_session(d, current_user_id, session_id, request) ==
    LET err == session_permission_error(d, current_user_id, session_id, "create_brainstorm")
    IN  IF err # "" THEN Raise(err)
        ELSE LET session == CHOOSE s \in SessionById(d, session_id) : TRUE
             IN  Return(<<ReplaceSession(d, session,
                            [session EXCEPT
                               !.status = IF request.status # <<>>
                                          THEN request.status[1] ELSE @,
                               !.session_data = IF request.session_data # <<>>
                                                THEN request.session_data ELSE @])>>,
                        session_id)

\* session_data is copied, the conversation found in it (none when there is no data)
\* is copied and the turn appended, and the copy is assigned.
append_conversation_turn(d, current_user_id, session_id, request) ==
    LET err == session_permission_error(d, current_user_id, session_id,
                                        "participate_conversations")
    IN  IF err # "" THEN Raise(err)
        ELSE LET session == CHOOSE s \in SessionById(d, session_id) : TRUE
                 session_data == IF session.session_data = NoSessionData
                                 THEN EmptySessionData ELSE session.session_data[1]
             IN  Return(<<ReplaceSession(d, session,
                            [session EXCEPT !.session_data =
                               <<[session_data EXCEPT
                                    !.conversation = Append(@, request.turn)]>>])>>,
                        session_id)

\* An unarchive that takes only archived sessions.
unarchive_archived_session_only(d, current_user_id, session_id) ==
    LET err == session_permission_error(d, current_user_id, session_id, "create_brainstorm")
    IN  IF err # "" THEN Raise(err)
        ELSE LET session == CHOOSE s \in SessionById(d, session_id) : TRUE
             IN  IF session.status # "archived" THEN Raise("ConflictError")
                 ELSE Return(<<ReplaceSession(d, session,
                                              [session EXCEPT !.status = "active"])>>,
                             session_id)

unarchive_session(d, current_user_id, session_id) ==
    LET err == session_permission_error(d, current_user_id, session_id, "create_brainstorm")
    IN  IF err # "" THEN Raise(err)
        ELSE LET session == CHOOSE s \in SessionById(d, session_id) : TRUE
             IN  Return(<<ReplaceSession(d, session, [session EXCEPT !.status = "active"])>>,
                        session_id)

archive_session(d, current_user_id, session_id) ==
    LET err == session_permission_error(d, current_user_id, session_id, "create_brainstorm")
    IN  IF err # "" THEN Raise(err)
        ELSE LET session == CHOOSE s \in SessionById(d, session_id) : TRUE
             IN  Return(<<ReplaceSession(d, session,
                                         [session EXCEPT !.status = "archived"])>>,
                        session_id)

\* session_data = session.session_data or {}: with None or {} a new object gets the
\* finalized keys and is stored.  Otherwise the keys are set on the object the row
\* was loaded with and that same object is assigned back; the column is a plain JSON
\* column (models/brainstorm_session.py:22), whose old and new value then compare
\* equal, so the flush writes the status and leaves session_data as it was stored.
finalize_session(d, current_user_id, session_id) ==
    LET err == session_permission_error(d, current_user_id, session_id, "create_brainstorm")
    IN  IF err # "" THEN Raise(err)
        ELSE LET session == CHOOSE s \in SessionById(d, session_id) : TRUE
             IN  Return(<<ReplaceSession(d, session,
                            [session EXCEPT
                               !.status = "completed",
                               !.session_data =
                                   IF Falsy(@)
                                   THEN <<[EmptySessionData EXCEPT !.finalized = TRUE]>>
                                   ELSE @])>>,
                        session_id)

StatusOf(d, session_id) ==
    IF SessionById(d, session_id) = {} THEN ""
    ELSE (CHOOSE s \in SessionById(d, session_id) : TRUE).status

ConversationOf(d, session_id) ==
    IF \A s \in SessionById(d, session_id) : s.session_data = NoSessionData THEN <<>>
    ELSE (CHOOSE s \in SessionById(d, session_id) : TRUE).session_data[1].conversation

\* last keeps the operation, its outcome, the session and the caller, the status and
\* the conversation the session had before the request, and whether the request
\* repeats the one before it: the same operation on the same session, both accepted.
LifecycleRequest(op, out, current_user_id, session_id) ==
    /\ db' = AfterRequest(db, out)
    /\ next_id' = [next_id EXCEPT
                     !.brainstorm_sessions =
                         @ + Cardinality({s \in AfterRequest(db, out).brainstorm_sessions :
                                            s.id >= @})]
    /\ last' = [op |-> op, result |-> out.result, session_id |-> session_id,
                caller |-> current_user_id,
                status_before |-> StatusOf(db, session_id),
                conversation_before |-> ConversationOf(db, session_id),
                repeated |-> /\ last.op = op /\ last.session_id = session_id
                             /\ last.result = "ok" /\ out.result = "ok"]
    /\ UNCHANGED auth_vars

LifecycleUsers == {"uo", "uv"}

UpdateSession ==
    \E current_user_id \in LifecycleUsers, session_id \in SessionIds,
       status \in {<<>>} \cup {<<s>> : s \in Statuses},
       session_data \in {NoSessionData, <<EmptySessionData>>,
                         <<[EmptySessionData EXCEPT !.finalized = TRUE]>>} :
        LifecycleRequest("update_session",
                         update_session(db, current_user_id, session_id,
                                        [status |-> status, session_data |-> session_data]),
                         current_user_id, session_id)

AppendConversationTurn ==
    \E current_user_id \in LifecycleUsers, session_id \in SessionIds, turn \in Turns :
        /\ Len(ConversationOf(db, session_id)) < MaxTurns
        /\ LifecycleRequest("append_conversation_turn",
                            append_conversation_turn(db, current_user_id, session_id,
                                                     [turn |-> turn]),
                            current_user_id, session_id)

FinalizeSession ==
    \E current_user_id \in LifecycleUsers, session_id \in SessionIds :
        LifecycleRequest("finalize_session",
                         finalize_session(db, current_user_id, session_id),
                         current_user_id, session_id)

ArchiveSession ==
    \E current_user_id \in LifecycleUsers, session_id \in SessionIds :
        LifecycleRequest("archive_session",
                         archive_session(db, current_user_id, session_id),
                         current_user_id, session_id)

UnarchiveSession ==
    \E current_user_id \in LifecycleUsers, session_id \in SessionIds :
        LifecycleRequest("unarchive_session",
                         unarchive_session(db, current_user_id, session_id),
                         current_user_id, session_id)

CloneLifecycleSession ==
    /\ next_id.brainstorm_sessions <= MaxSessions
    /\ \E current_user_id \in LifecycleUsers, session_id \in SessionIds :
          LifecycleRequest("clone_session",
                           clone_session(db, next_id.brainstorm_sessions,
                                         next_id.research_keywords, current_user_id,
                                         session_id),
                           current_user_id, session_id)

\* One session of lab L1, active, created with no session_data or with an empty one.
InitLifecycle ==
    /\ \E session_data \in {NoSessionData, <<EmptySessionData>>} :
          db = [EmptyDb EXCEPT !.brainstorm_sessions =
                   {[id |-> 1, lab_id |-> "L1", deleted_at |-> FALSE, status |-> "active",
                     session_data |-> session_data]}]
    /\ next_id = [FirstIds EXCEPT !.brainstorm_sessions = 2]
    /\ last = [op |-> "", result |-> "", session_id |-> NoId, caller |-> "",
               status_before |-> "", conversation_before |-> <<>>, repeated |-> FALSE]
    /\ NoTokens

NextLifecycle ==
    \/ UpdateSession
    \/ AppendConversationTurn
    \/ FinalizeSession
    \/ ArchiveSession
    \/ UnarchiveSession
    \/ CloneLifecycleSession

SpecLifecycle == InitLifecycle /\ [][NextLifecycle]_vars

RECURSIVE IsSubsequence(_, _)
IsSubsequence(a, b) ==
    IF a = <<>> THEN TRUE
    ELSE IF b = <<>> THEN FALSE
    ELSE IF Head(a) = Head(b) THEN IsSubsequence(Tail(a), Tail(b))
    ELSE IsSubsequence(a, Tail(b))

\* C23: session_data.conversation is append-only: the turns a session held before a
\* session operation are all in its conversation after it, in the same order.
ConversationIsAppendOnly ==
    (last.result = "ok" /\ last.op # "clone_session")
    => IsSubsequence(last.conversation_before, ConversationOf(db, last.session_id))

\* C25: finalize_session, archive_session and unarchive_session are accepted from every
\* status when the caller may act on the session, leave it completed, archived and
\* active, and a second application in succession leaves the status of the first.
StatusSetBy ==
    [finalize_session |-> "completed", archive_session |-> "archived",
     unarchive_session |-> "active"]

LifecycleActionsTakeEveryStatus ==
    /\ \A session \in db.brainstorm_sessions, current_user_id \in LifecycleUsers :
          session_permission_error(db, current_user_id, session.id, "create_brainstorm") = ""
          => /\ finalize_session(db, current_user_id, session.id).result = "ok"
             /\ archive_session(db, current_user_id, session.id).result = "ok"
             /\ unarchive_session(db, current_user_id, session.id).result = "ok"
    /\ (last.op \in DOMAIN StatusSetBy /\ last.result = "ok")
       => StatusOf(db, last.session_id) = StatusSetBy[last.op]
    /\ (last.op \in DOMAIN StatusSetBy /\ last.repeated)
       => StatusOf(db, last.session_id) = last.status_before

\* unarchive_session was applied twice in succession to a session.
UnarchivedTwiceInSuccession ==
    /\ last.op = "unarchive_session"
    /\ last.repeated
    /\ last.status_before = "active"
    /\ StatusOf(db, last.session_id) = "active"

\* C30: a session whose session_data carries finalized = true has status completed.
FinalizedSessionsAreCompleted ==
    \A session \in db.brainstorm_sessions :
        (session.session_data # NoSessionData /\ session.session_data[1].finalized)
        => session.status = "completed"

(***************************************************************************)
(* The services that create processing jobs: KgSchemaService.migrate_schema *)
(* and Neo4jConnectionService.sync_connection and rebuild_indexes.          *)
(***************************************************************************)
\* The values of the processing_job_type enum of the job_type column.
processing_job_type ==
    {"paper_crawl", "paper_process", "entity_extract", "vector_embed", "kg_upsert",
     "schema_migrate", "index_rebuild", "data_export", "database_create"}

\* db.add(job); db.commit(): the store is PostgreSQL, where the column has a native
\* enum type, and the INSERT of a value outside the enum fails with a DataError.
add_job(d, job) ==
    IF job.job_type \notin processing_job_type THEN Raise("DataError")
    ELSE Return(<<[d EXCEPT !.processing_jobs = @ \cup {job}]>>, job.id)

\* The second commit stores last_sync_at of the connection, which the rows of the
\* model do not keep.
sync_connection(d, new_id, user_id, connection_id, request) ==
    IF ConnectionById(d, connection_id) = {} THEN Raise("NotFoundError")
    ELSE LET connection == CHOOSE c \in ConnectionById(d, connection_id) : TRUE
             user_role == get_user_role_in_lab(d, user_id, connection.lab_id)
             sync_type == IF request.force_rebuild THEN "index_rebuild" ELSE "sync"
             added == add_job(d, [id |-> new_id, lab_id |-> connection.lab_id,
                                  job_type |-> sync_type, status |-> "queued"])
         IN  IF ~(is_admin_role(user_role) \/ can_run_jobs(user_role))
             THEN Raise("AuthorizationError")
             ELSE IF added.result # "ok" THEN added
             ELSE Return(added.commits \o added.commits, new_id)

rebuild_indexes(d, new_id, user_id, connection_id) ==
    IF ConnectionById(d, connection_id) = {} THEN Raise("NotFoundError")
    ELSE LET connection == CHOOSE c \in ConnectionById(d, connection_id) : TRUE
             user_role == get_user_role_in_lab(d, user_id, connection.lab_id)
         IN  IF ~(is_admin_role(user_role) \/ can_run_jobs(user_role))
             THEN Raise("AuthorizationError")
             ELSE add_job(d, [id |-> new_id, lab_id |-> connection.lab_id,
                              job_type |-> "index_rebuild", status |-> "queued"])

SyncConnection ==
    /\ next_id.processing_jobs <= MaxJobs
    /\ \E user_id \in Users, connection_id \in ConnectionIds, force_rebuild \in BOOLEAN :
          KgRequest("sync_connection",
                    sync_connection(db, next_id.processing_jobs, user_id, connection_id,
                                    [force_rebuild |-> force_rebuild]),
                    "processing_jobs", LabOfConnection(db, connection_id), connection_id,
                    NoId, "", ActiveConnectionIds(db, LabOfConnection(db, connection_id)))

RebuildIndexes ==
    /\ next_id.processing_jobs <= MaxJobs
    /\ \E user_id \in Users, connection_id \in ConnectionIds :
          KgRequest("rebuild_indexes",
                    rebuild_indexes(db, next_id.processing_jobs, user_id, connection_id),
                    "processing_jobs", LabOfConnection(db, connection_id), connection_id,
                    NoId, "", ActiveConnectionIds(db, LabOfConnection(db, connection_id)))

NextJobs ==
    \/ CreateConnection
    \/ MigrateSchema
    \/ SyncConnection
    \/ RebuildIndexes

SpecJobs == InitConnections /\ [][NextJobs]_vars

\* C24: every job row created by migrate_schema, sync_connection and rebuild_indexes has
\* a job_type of the declared set and status queued: a call of one of them that is not
\* refused for a missing row or for the caller's role creates such a row.
JobServicesCreateDeclaredQueuedJobs ==
    /\ \A j \in db.processing_jobs :
          j.job_type \in processing_job_type /\ j.status = "queued"
    /\ last.op \in {"migrate_schema", "sync_connection", "rebuild_indexes"}
       => /\ last.result \in {"ok", "NotFoundError", "AuthorizationError"}
          /\ last.result = "ok" => \E j \in db.processing_jobs : j.lab_id = last.lab_id

(***************************************************************************)
(* utils/slug.py.  A string is a sequence of characters; one character     *)
(* stands for each class the regular expressions tell apart: a lowercase   *)
(* and an uppercase ASCII letter, a digit, a space, the underscore, the    *)
(* hyphen, a punctuation mark and a letter outside ASCII.                  *)
(***************************************************************************)
MaxNameLen == 3

Characters == {"a", "A", "1", " ", "_", "-", "!", "é"}

Strings == UNION {[1..n -> Characters] : n \in 0..MaxNameLen}

\* \w of a str pattern: letters of any script, digits and the underscore.
WordCharacters == {"a", "A", "1", "_", "é"}

\* \s
SpaceCharacters == {" "}

\* str.lower()
lower_character(c) == IF c = "A" THEN "a" ELSE c

RECURSIVE lstrip(_, _)
lstrip(s, chars) ==
    IF s # <<>> /\ Head(s) \in chars THEN lstrip(Tail(s), chars) ELSE s

RECURSIVE rstrip(_, _)
rstrip(s, chars) ==
    IF s # <<>> /\ s[Len(s)] \in chars THEN rstrip(SubSeq(s, 1, Len(s) - 1), chars) ELSE s

strip(s, chars) == rstrip(lstrip(s, chars), chars)

\* re.sub(r'[chars]+', repl, s): every maximal run of chars becomes one repl.
RECURSIVE sub_runs(_, _, _)
sub_runs(chars, repl, s) ==
    IF s = <<>> THEN <<>>
    ELSE IF Head(s) \in chars THEN <<repl>> \o sub_runs(chars, repl, lstrip(s, chars))
    ELSE <<Head(s)>> \o sub_runs(chars, repl, Tail(s))

name_to_slug(name) ==
    IF name = <<>> THEN [result |-> "ValueError", value |-> <<>>]
    ELSE LET kept == SelectSeq(name, LAMBDA c : c \in WordCharacters \cup SpaceCharacters
                                                        \cup {"-"})
             lowered == [i \in DOMAIN strip(kept, SpaceCharacters) |->
                            lower_character(strip(kept, SpaceCharacters)[i])]
             hyphened == sub_runs(SpaceCharacters \cup {"_"}, "-", lowered)
             slug == strip(sub_runs({"-"}, "-", hyphened), {"-"})
         IN  [result |-> "ok", value |-> slug]

\* ^[a-z0-9-]+$ on a string that is not empty.
is_valid_slug(slug) ==
    /\ slug # <<>>
    /\ \A i \in DOMAIN slug : slug[i] \in {"a", "1", "-"}

\* last keeps the call: the function, its argument, how it ended and what it returned.
SlugCall(op, argument, result, value) ==
    /\ last' = [op |-> op, argument |-> argument, result |-> result, value |-> value]
    /\ UNCHANGED <<db, next_id>>
    /\ UNCHANGED auth_vars

NameToSlug ==
    \E name \in Strings :
        SlugCall("name_to_slug", name, name_to_slug(name).result, name_to_slug(name).value)

IsValidSlug ==
    \E slug \in Strings :
        SlugCall("is_valid_slug", slug, "ok", is_valid_slug(slug))

InitSlug ==
    /\ db = EmptyDb
    /\ next_id = FirstIds
    /\ last = [op |-> "", argument |-> <<>>, result |-> "", value |-> <<>>]
    /\ NoTokens

NextSlug ==
    \/ NameToSlug
    \/ IsValidSlug

SpecSlug == InitSlug /\ [][NextSlug]_vars

\* C26: for every non-empty x, is_valid_slug(name_to_slug(x)) is true, and
\* name_to_slug(name_to_slug(x)) returns name_to_slug(x) without raising.
SlugOfNameIsValidAndFixed ==
    (last.op = "name_to_slug" /\ last.argument # <<>>)
    => /\ last.result = "ok"
       /\ is_valid_slug(last.value)
       /\ name_to_slug(last.value) = [result |-> "ok", value |-> last.value]

(***************************************************************************)
(* The lab's pointers against the rows, over the schema, connection and    *)
(* lab requests of SpecDeletes.                                            *)
(***************************************************************************)
PointerSet(id) == IF id = NoId THEN {} ELSE {id}

\* C27: the lab's pointer and the rows' flags agree: active_schema_id names exactly the
\* schema of the lab with is_active = true, active_connection_id exactly the connection
\* of the lab with is_active = true, and each is null when no row is active.
PointersAgreeWithFlags ==
    \A lab_id \in Labs :
        /\ ActiveSchemaIds(db, lab_id) = PointerSet(db.labs[lab_id].active_schema_id)
        /\ ActiveConnectionIds(db, lab_id) = PointerSet(db.labs[lab_id].active_connection_id)

\* C28: active_schema_id and active_connection_id are each null or the id of an existing
\* row of the same lab; no deletion leaves a pointer naming a deleted row.
PointersNameRowsOfTheLab ==
    \A lab_id \in Labs :
        /\ PointerSet(db.labs[lab_id].active_schema_id)
              \subseteq {s.id : s \in SchemasOfLab(db, lab_id)}
        /\ PointerSet(db.labs[lab_id].active_connection_id)
              \subseteq {c.id : c \in {r \in db.neo4j_connections : r.lab_id = lab_id}}

\* A forced deletion removed the schema the lab's pointer named, and with it a
\* connection that referenced it.
ForcedDeletionOfThePointedSchema ==
    /\ last.op = "delete_schema" /\ last.result = "ok"
    /\ last.target \in last.active_before
    /\ SchemaById(db, last.target) = {}
    /\ \E i \in 1..Len(last.commits) : db = last.commits[i]
    /\ db.labs[last.lab_id].active_schema_id = NoId
    /\ next_id.neo4j_connections > 1
    /\ db.neo4j_connections = {}

(***************************************************************************)
(* remove_member and update_member served concurrently.  Each request runs *)
(* in a transaction of its own at READ COMMITTED, PostgreSQL's default:    *)
(* the engine is created without an isolation level (db/session.py).  Its  *)
(* queries see what has been committed when they run, and its DELETE or    *)
(* UPDATE of one membership row waits for no transaction that wrote        *)
(* another row.  The queries of a request are taken at one instant, the    *)
(* write and the commit at a later one.                                    *)
(***************************************************************************)
NoMemberRequest ==
    [pc |-> "idle", op |-> "", user_id |-> "", role |-> <<>>, role_loaded |-> ""]

\* The checks the two methods make before they write anything.
member_checks(d, op, current_user_id, lab_id, user_id, role) ==
    IF op = "remove_member" THEN remove_member(d, current_user_id, lab_id, user_id).result
    ELSE update_member(d, current_user_id, lab_id, user_id,
                       [role |-> role, can_manage_members |-> <<>>]).result

\* db.delete(member) or the UPDATE of the role when it differs from the one loaded,
\* by primary key, then commit.  A row another transaction has deleted in the
\* meantime matches nothing and the flush raises StaleDataError.
member_written(d, r, lab_id) ==
    LET tx == d.transactions[r]
        changes == tx.op = "remove_member" \/ (tx.role # <<>> /\ tx.role[1] # tx.role_loaded)
        closed == [d EXCEPT !.transactions[r] = NoMemberRequest]
    IN  IF ~changes THEN [result |-> "ok", store |-> closed]
        ELSE IF MemberOf(d, lab_id, tx.user_id) = {}
        THEN [result |-> "StaleDataError", store |-> closed]
        ELSE [result |-> "ok",
              store |-> [closed EXCEPT !.lab_members =
                           IF tx.op = "remove_member"
                           THEN {m \in @ : ~(m.lab_id = lab_id /\ m.user_id = tx.user_id)}
                           ELSE {IF m.lab_id = lab_id /\ m.user_id = tx.user_id
                                 THEN [m EXCEPT !.role = tx.role[1]] ELSE m : m \in @}]]

\* last keeps the step and its outcome and the number of admins of lab L1 before it.
BeginMemberRequest ==
    \E r \in Requests, op \in {"remove_member", "update_member"},
       current_user_id \in {"uo", "uv"}, user_id \in {"ua", "uv"},
       role \in {<<r1>> : r1 \in MemberRoles} :
        LET result == member_checks(db, op, current_user_id, "L1", user_id, role)
        IN  /\ db.transactions[r].pc = "idle"
            /\ db' = IF result # "ok" THEN db
                     ELSE [db EXCEPT !.transactions[r] =
                              [pc |-> "checked", op |-> op, user_id |-> user_id,
                               role |-> IF op = "remove_member" THEN <<>> ELSE role,
                               role_loaded |-> RoleOf(db, "L1", user_id)]]
            /\ last' = [op |-> op, result |-> result,
                        admins_before |-> admin_count(db, "L1")]
            /\ UNCHANGED <<next_id, auth_vars>>

CommitMemberRequest ==
    \E r \in Requests :
        /\ db.transactions[r].pc = "checked"
        /\ db' = member_written(db, r, "L1").store
        /\ last' = [op |-> "commit", result |-> member_written(db, r, "L1").result,
                    admins_before |-> admin_count(db, "L1")]
        /\ UNCHANGED <<next_id, auth_vars>>

\* Lab L1 has the members ua and uv, each an admin or a viewer.
InitMemberRace ==
    /\ \E role_a \in MemberRoles, role_v \in MemberRoles :
          db = [labs |-> EmptyDb.labs,
                lab_members |->
                  {[lab_id |-> "L1", user_id |-> "ua", role |-> role_a,
                    can_manage_members |-> TRUE, left_at |-> FALSE],
                   [lab_id |-> "L1", user_id |-> "uv", role |-> role_v,
                    can_manage_members |-> TRUE, left_at |-> FALSE]},
                users |-> Users,
                transactions |-> [r \in Requests |-> NoMemberRequest]]
    /\ next_id = FirstIds
    /\ last = [op |-> "", result |-> "", admins_before |-> 0]
    /\ NoTokens

NextMemberRace ==
    \/ BeginMemberRequest
    \/ CommitMemberRequest

SpecMemberRace == InitMemberRace /\ [][NextMemberRace]_vars

\* C29: under any interleaving of concurrent remove_member and update_member requests
\* on one lab the number of members with role admin never drops from at least one to
\* zero.
ConcurrentRequestsKeepAnAdmin ==
    last.admins_before >= 1 => admin_count(db, "L1") >= 1

====
